---- MODULE Spec2Model ----
(***************************************************************************)
(* The HTTP/1.1 connection dispatcher of actix-http                        *)
(* (actix-http/src/h1/dispatcher.rs) as a state machine.                   *)
(*                                                                         *)
(* One Dispatcher drives one connection.  Every wake-up of the connection  *)
(* task runs Dispatcher::poll once; the position inside that call is pc.   *)
(* Between two wake-ups (pc = "parked") the environment acts: bytes        *)
(* arrive, time passes, a handler future or a body stream becomes ready,   *)
(* the body consumer changes its readiness, the transport drains.          *)
(*                                                                         *)
(* Bytes are abstracted to units.  On the read side a unit is what one     *)
(* call of Codec::decode turns into one result (a head, a body chunk, an   *)
(* end of body, a malformed head, an I/O failure of the decoder).  On the  *)
(* write side a unit is one piece Codec::encode appends (a status line,    *)
(* the rest of a head, a body chunk, an end-of-body marker, the interim    *)
(* 100 Continue line); a write may stop between any two units.             *)
(***************************************************************************)
EXTENDS Integers, Sequences, FiniteSets, TLC

\* ---------------------------------------------------------------- bounds
\* Longest client script of arbitrary units.
MaxScript == 2
\* Longest client script when timers are configured.
MaxTimed == 1
\* Longest client script made of request heads only (pipelining).
MaxPipeline == 4
\* Most units that follow the head of a request with a body.
MaxBody == 2
\* Reads of the socket are counted up to this many.
MaxReads == 2
\* Most chunks one response body produces.
MaxChunks == 1
\* Keep-alive duration, slow-request timeout, disconnect timeout (in ticks).
\* Bodies: bytes or characters of content, polls of one body.
MaxContent == 2
MaxPolls == 3
\* Errors: responses made from one error.
MaxResponses == 2
\* Path parameters: characters of one parameter.
MaxParam == 4
KeepAliveDur == 2
ClientTimeout == 1
ClientDisconnect == 1

\* ----------------------------------------------------- program constants
HW_BUFFER_SIZE == 32768
MAX_PIPELINED_MESSAGES == 16

\* Bytes of one response body chunk: one reaches the high-water mark.
ChunkBytes == HW_BUFFER_SIZE

\* A flood of pipelined heads: more than the queue may hold behind the
\* request in flight.
FloodLen == MAX_PIPELINED_MESSAGES + 2

VARIABLES
    inner,      \* the InnerDispatcher's fields
    wire,       \* units the client sends, not yet read by the dispatcher
    reads,      \* how many reads of the socket returned data (up to MaxReads)
    avail,      \* how many of the units (plus the end of stream) reached the socket
    wend,       \* how the client's stream ends: open, eof, reset, err, gone
    out,        \* units the transport accepted
    writable,   \* the transport did not return WouldBlock on the last write
    shut,       \* io.shutdown() returned NotReady and was not retried yet
    handlers,   \* the handlers of this run: "any", "plain" or "slow"
    pc,         \* position inside Dispatcher::poll
    ret,        \* caller of the running poll_request: "poll" or "response"
    updated,    \* poll_request's local
    need_write, \* Dispatcher::poll's local
    entries,    \* re-entries of Dispatcher::poll in this wake-up
    notify,     \* the task is scheduled to be polled
    result,     \* the connection future: pending, ok, or the error
    call        \* a call of a function outside the dispatcher: argument, result

vars == <<inner, wire, reads, avail, wend, out, writable, shut, handlers,
          pc, ret, updated, need_write, entries, notify, result, call>>

\* ------------------------------------------------------------- data types
Min(a, b) == IF a < b THEN a ELSE b

Max(a, b) == IF a < b THEN b ELSE a

\* enum State
StateNone == [kind |-> "None", id |-> 0, fut |-> "-", left |-> 0]

\* fut: "poll" (readiness decided by the next poll), "pending" (returned
\* NotReady and not notified since), "ready", "err"
ExpectCall(id, fut) == [kind |-> "ExpectCall", id |-> id, fut |-> fut, left |-> 0]

ServiceCall(id, fut) == [kind |-> "ServiceCall", id |-> id, fut |-> fut, left |-> 0]

SendPayload(id, left) == [kind |-> "SendPayload", id |-> id, fut |-> "poll", left |-> left]

\* An emptiness test that takes a pending service call for no state.
is_empty_or_call(st) == st.kind \in {"None", "ServiceCall"}

\* An emptiness test that also holds while a body is streamed.
is_empty_or_streaming(st) == st.kind \in {"None", "SendPayload"}

is_empty(st) == st.kind = "None"

is_call(st) == st.kind = "ServiceCall"

\* enum DispatcherMessage
Item(req) == [kind |-> "Item", id |-> req.id, code |-> 0, expect |-> req.expect]

ErrorEntry(id, code) == [kind |-> "Error", id |-> id, code |-> code, expect |-> FALSE]

\* Units of the write side.
Unit(u, id, code) == [u |-> u, id |-> id, code |-> code]

\* Units of the read side.
TokShapes ==
    {[t |-> "Head", body |-> b, expect |-> e] : b \in BOOLEAN, e \in BOOLEAN}
    \cup {[t |-> k, body |-> FALSE, expect |-> FALSE] : k \in {"Chunk", "Eof", "Bad", "IoErr"}}

HeadShapes == {s \in TokShapes : s.t = "Head"}

PlainHead == [t |-> "Head", body |-> FALSE, expect |-> FALSE]

BodyHead == [t |-> "Head", body |-> TRUE, expect |-> FALSE]

ExpectHead == [t |-> "Head", body |-> FALSE, expect |-> TRUE]

ChunkTok == [t |-> "Chunk", body |-> FALSE, expect |-> FALSE]

EofTok == [t |-> "Eof", body |-> FALSE, expect |-> FALSE]

Tok(shape, i) == [t |-> shape.t, body |-> shape.body, expect |-> shape.expect, id |-> i]

\* What a handler answers: the body's size hint, how many chunks the body
\* yields, the codec's keep-alive decision after encoding the head, and
\* whether the head can be encoded at all.
BodySize == {"None", "Empty", "Sized", "Stream"}

Plain == [hint |-> "Empty", n |-> 0, ka |-> TRUE, enc |-> TRUE]

Responses ==
    {r \in [hint : BodySize, n : 0..MaxChunks, ka : BOOLEAN, enc : {TRUE}] :
        r.hint \in {"None", "Empty"} => r.n = 0}
    \cup {[Plain EXCEPT !.enc = FALSE]}

\* A response the dispatcher builds itself (400, 408, 500): empty body,
\* headers that always encode.
OwnResponse(ka) == [Plain EXCEPT !.ka = ka]

\* The status of a response a handler produced (from Ok or from Err): the
\* dispatcher never looks at it.
HandlerStatus == 200

Outcomes == {"ready", "pending", "err"}

\* What the environment decides during one step: o, what a future or body
\* stream of unknown readiness returns; eo, so, what the first poll of a
\* new expect future and of a new service future returns; r, the response;
\* st, what the body consumer reports after a chunk was fed.
Choice(o, eo, so, r, st) == [o |-> o, eo |-> eo, so |-> so, r |-> r, st |-> st]

NoChoice == Choice("pending", "pending", "pending", Plain, "Read")

\* PayloadSender::need_read after feed_data: the consumer's buffer has room
\* (Read) or is full (Pause).
FeedStatus == {"Read", "Pause"}

\* The handlers of a run: "any" (any timing, any response, errors),
\* "plain" (any timing, plain responses), "slow" (never ready at the first
\* poll, plain responses).
ResponsesOf(mode) == IF mode = "any" THEN Responses ELSE {Plain}

FirstPoll(mode) ==
    IF mode = "any" THEN Outcomes
    ELSE IF mode = "plain" THEN {"ready", "pending"}
    ELSE {"pending"}

Completions(mode) == IF mode = "any" THEN {"ready", "err"} ELSE {"ready"}

\* The choices that matter when handle_request runs on req.
HandlerChoices(req, mode) ==
    LET called == {[NoChoice EXCEPT !.eo = "ready"]  : so \in FirstPoll(mode) \cap {"pending"}}
                  \cup {[NoChoice EXCEPT !.eo = "ready", !.so = so, !.r = r] :
                           so \in FirstPoll(mode) \ {"pending"}, r \in ResponsesOf(mode)}
    IN  IF req.expect
        THEN {NoChoice}
             \cup {[NoChoice EXCEPT !.eo = "err", !.r = r] :
                      eo \in FirstPoll(mode) \cap {"err"}, r \in ResponsesOf(mode)}
             \cup called
        ELSE called

\* ------------------------------------------------------------ dispatcher
\* Dispatcher::with_timeout
with_timeout(cfg, timeout) ==
    [ flags     |-> IF cfg.keep_alive > 0 THEN {"KEEPALIVE"} ELSE {},
      error     |-> "None",
      state     |-> StateNone,
      payload   |-> "None",
      chan      |-> "none",
      messages  |-> <<>>,
      ka_timer  |-> IF timeout > 0 \/ cfg.keep_alive > 0 THEN "Armed" ELSE "None",
      tleft     |-> IF timeout > 0 THEN timeout ELSE cfg.keep_alive,
      ka_expire |-> IF timeout > 0 THEN timeout ELSE cfg.keep_alive,
      read_buf  |-> <<>>,
      write_buf |-> <<>>,
      config    |-> cfg,
      service   |-> <<>>,
      expect    |-> <<>> ]

Configs == [keep_alive : {0, KeepAliveDur}, client_disconnect : {0, ClientDisconnect}]

NoTimers == [keep_alive |-> 0, client_disconnect |-> 0]

can_read(d) ==
    IF "READ_DISCONNECT" \in d.flags THEN FALSE
    ELSE IF d.payload # "None" THEN d.payload = "Read"
    ELSE TRUE

\* PayloadSender::set_error / feed_eof on the taken sender
close_payload(d, how) ==
    IF d.payload # "None" THEN [d EXCEPT !.payload = "None", !.chan = how] ELSE d

\* client_disconnected that forgets the payload channel.
client_disconnected_keeps_payload(d) ==
    [d EXCEPT !.flags = @ \cup {"READ_DISCONNECT", "WRITE_DISCONNECT"}]

client_disconnected(d) ==
    close_payload([d EXCEPT !.flags = @ \cup {"READ_DISCONNECT", "WRITE_DISCONNECT"}],
                  "Incomplete")

BufLen(buf) == Len(SelectSeq(buf, LAMBDA u : u.u = "chunk")) * ChunkBytes + Len(buf)

\* Codec::encode of a response head: status line, then headers
EncodeHead(id, code) == <<Unit("status", id, code), Unit("headers", id, code)>>

\* send_response that gives up the request's payload with every response.
send_response_takes_payload(d, id, code, r) ==
    IF ~r.enc
    THEN [ok |-> FALSE, d |-> close_payload(d, "Incomplete"), st |-> StateNone]
    ELSE [ok |-> TRUE,
          d  |-> [close_payload(d, "Incomplete") EXCEPT
                     !.write_buf = @ \o EncodeHead(id, code),
                     !.flags = IF r.ka THEN @ \cup {"KEEPALIVE"}
                               ELSE @ \ {"KEEPALIVE"}],
          st |-> IF r.hint \in {"None", "Empty"} THEN StateNone
                 ELSE SendPayload(id, r.n)]

\* send_response that assigns the flags instead of setting one of them.
send_response_assigns_flags(d, id, code, r) ==
    IF ~r.enc
    THEN [ok |-> FALSE, d |-> close_payload(d, "Incomplete"), st |-> StateNone]
    ELSE [ok |-> TRUE,
          d  |-> [d EXCEPT !.write_buf = @ \o EncodeHead(id, code),
                           !.flags = IF r.ka THEN {"KEEPALIVE"} ELSE {}],
          st |-> IF r.hint \in {"None", "Empty"} THEN StateNone
                 ELSE SendPayload(id, r.n)]

\* send_response that goes idle for every body at its end, Sized(0) too.
send_response_idle_at_eof(d, id, code, r) ==
    IF ~r.enc
    THEN [ok |-> FALSE, d |-> close_payload(d, "Incomplete"), st |-> StateNone]
    ELSE [ok |-> TRUE,
          d  |-> [d EXCEPT !.write_buf = @ \o EncodeHead(id, code),
                           !.flags = IF r.ka THEN @ \cup {"KEEPALIVE"}
                                     ELSE @ \ {"KEEPALIVE"}],
          st |-> IF r.hint \in {"None", "Empty"} \/ r.n = 0 THEN StateNone
                 ELSE SendPayload(id, r.n)]

send_response(d, id, code, r) ==
    IF ~r.enc
    THEN [ok |-> FALSE, d |-> close_payload(d, "Incomplete"), st |-> StateNone]
    ELSE [ok |-> TRUE,
          d  |-> [d EXCEPT !.write_buf = @ \o EncodeHead(id, code),
                           !.flags = IF r.ka THEN @ \cup {"KEEPALIVE"}
                                     ELSE @ \ {"KEEPALIVE"}],
          st |-> IF r.hint \in {"None", "Empty"} THEN StateNone
                 ELSE SendPayload(id, r.n)]

send_continue(d, id) ==
    [d EXCEPT !.write_buf = Append(@, Unit("continue", id, 100))]

handle_request(d, req, c) ==
    LET de == IF req.expect THEN [d EXCEPT !.expect = Append(@, req.id)] ELSE d
        dc == IF req.expect THEN send_continue(de, req.id) ELSE de
        ds == [dc EXCEPT !.service = Append(@, req.id)]
    IN  IF req.expect /\ c.eo = "pending"
        THEN [ok |-> TRUE, d |-> de, st |-> ExpectCall(req.id, "pending")]
        ELSE IF req.expect /\ c.eo = "err"
        THEN send_response(de, req.id, HandlerStatus, c.r)
        ELSE IF c.so = "pending"
        THEN [ok |-> TRUE, d |-> ds, st |-> ServiceCall(req.id, "pending")]
        ELSE send_response(ds, req.id, HandlerStatus, c.r)

\* A would-block that leaves the written part in the buffer.
splice_nothing(buf, written) == buf

\* let _ = self.write_buf.split_to(written), set_len(0)
splice(buf, written) == SubSeq(buf, written + 1, Len(buf))

\* poll_flush.  w: what the transport does with the buffer: it accepts w
\* units and then returns WouldBlock (w = Len: all accepted), or it accepts
\* -w - 1 units and then fails (w < 0: Ok(0) or a hard error).  n: units
\* accepted; wb: WouldBlock was returned.
poll_flush(d, w) ==
    LET len == Len(d.write_buf)
    IN  IF len = 0
        THEN [err |-> "None", d |-> d, n |-> 0, wb |-> FALSE]
        ELSE IF w < 0
        THEN [err |-> "Io", d |-> d, n |-> -w - 1, wb |-> FALSE]
        ELSE [err |-> "None",
              d   |-> [d EXCEPT !.write_buf = splice(@, w)],
              n   |-> w,
              wb  |-> w < len]

\* What the transport may do with a buffer of len units.
Writes(len, canWrite) ==
    (IF canWrite THEN 1..len ELSE {0})
    \cup {-k - 1 : k \in 0..(IF canWrite THEN Max(len - 1, 0) ELSE 0)}

\* A timeout during shutdown that is swallowed.
disconnect_timeout_swallowed(d) ==
    [err |-> "None", d |-> [d EXCEPT !.ka_timer = "Elapsed"]]

\* if we get timeout during shutdown, drop connection
disconnect_timeout(d) ==
    [err |-> "DisconnectTimeout", d |-> [d EXCEPT !.ka_timer = "Elapsed"]]

\* A check for outstanding tasks that forgets the state.
no_outstanding_tasks_but_state(d) == d.write_buf = <<>>

\* A check for outstanding tasks that forgets the unwritten bytes.
no_outstanding_tasks_but_bytes(d) == is_empty(d.state)

\* check for any outstanding tasks
no_outstanding_tasks(d) == is_empty(d.state) /\ d.write_buf = <<>>

\* poll_keepalive; ka: the codec's keep-alive decision if a 408 is encoded.
\* The timer is Ready when it is Fired (not yet seen) or Elapsed (seen and
\* not reset since).  tleft and ka_expire count from now.
poll_keepalive(d, ka) ==
    LET cd    == d.config.client_disconnect
        kad   == d.config.keep_alive
        sd    == "SHUTDOWN" \in d.flags
        ok(x) == [err |-> "None", d |-> x]
    IN  IF d.ka_timer = "None"
        THEN IF sd
             THEN IF cd > 0
                  THEN ok([d EXCEPT !.ka_timer = "Armed", !.tleft = cd])
                  ELSE ok([d EXCEPT !.flags = @ \cup {"READ_DISCONNECT"}])
             ELSE ok(d)
        ELSE IF d.ka_timer = "Armed"
        THEN ok(d)
        ELSE IF sd
        THEN disconnect_timeout(d)
        ELSE IF d.tleft >= d.ka_expire
        THEN IF no_outstanding_tasks(d)
             THEN IF "STARTED" \in d.flags
                  THEN IF cd > 0
                       THEN ok([d EXCEPT !.flags = @ \cup {"SHUTDOWN"},
                                         !.ka_timer = "Armed", !.tleft = cd])
                       ELSE ok([d EXCEPT !.flags = @ \cup {"SHUTDOWN", "WRITE_DISCONNECT"},
                                         !.ka_timer = "Elapsed"])
                  ELSE ok([send_response(d, 0, 408, OwnResponse(ka)).d
                               EXCEPT !.flags = @ \cup {"STARTED", "SHUTDOWN"},
                                      !.state = StateNone,
                                      !.ka_timer = "Elapsed"])
             ELSE IF kad > 0
                  THEN ok([d EXCEPT !.ka_timer = "Armed", !.tleft = kad])
                  ELSE ok([d EXCEPT !.ka_timer = "Elapsed"])
        ELSE ok([d EXCEPT !.ka_timer = "Armed", !.tleft = d.ka_expire])

\* A reset taken for a disconnect whether or not bytes were read.
read_available_any_reset(n, ended, how) ==
    IF ended
    THEN IF how \in {"eof", "reset"} THEN "eof" ELSE "err"
    ELSE IF n > 0 THEN "more" ELSE "none"

\* read_available: n data units and, if ended, the end of the client's
\* stream are at the socket.  "eof": Some(true), "more": Some(false),
\* "none": None, "err": Err.
read_available(n, ended, how) ==
    IF ended
    THEN IF how = "eof" THEN "eof"
         ELSE IF how = "reset" /\ n > 0 THEN "eof"
         ELSE "err"
    ELSE IF n > 0 THEN "more" ELSE "none"

\* The violation arm without the read disconnect.
violation_keeps_reading(d, id) ==
    [d EXCEPT !.messages = Append(@, ErrorEntry(id, 500)),
              !.error = "InternalError"]

\* The dispatcher's own protocol violation: a chunk or an end of body
\* with no payload channel.
violation(d, id) ==
    [d EXCEPT !.flags = @ \cup {"READ_DISCONNECT"},
              !.messages = Append(@, ErrorEntry(id, 500)),
              !.error = "InternalError"]

\* The malformed-request arm without the read disconnect.
malformed_keeps_reading(d, id) ==
    [close_payload(d, "EncodingCorrupted") EXCEPT
        !.messages = Append(@, ErrorEntry(id, 400)),
        !.error = "Parse"]

\* Malformed requests should be responded with 400
malformed(d, id) ==
    [close_payload(d, "EncodingCorrupted") EXCEPT
        !.messages = Append(@, ErrorEntry(id, 400)),
        !.flags = @ \cup {"READ_DISCONNECT"},
        !.error = "Parse"]

\* One turn of poll_request's loop: Codec::decode and the match on its
\* result.  next: "loop", "break", "err".
decode_step(d, c) ==
    IF d.read_buf = <<>>
    THEN [next |-> "break", d |-> d, upd |-> FALSE]
    ELSE
    LET msg == Head(d.read_buf)
        d0  == [d EXCEPT !.read_buf = Tail(@)]
        d1  == [d0 EXCEPT !.flags = @ \cup {"STARTED"}]
    IN  CASE msg.t = "Head" ->
               LET d2 == IF msg.body
                         THEN [d1 EXCEPT !.payload = "Read", !.chan = "open"]
                         ELSE d1
                   h  == handle_request(d2, msg, c)
               IN  IF is_empty(d2.state)
                   THEN IF h.ok
                        THEN [next |-> "loop", d |-> [h.d EXCEPT !.state = h.st], upd |-> TRUE]
                        ELSE [next |-> "err", d |-> h.d, upd |-> TRUE]
                   ELSE [next |-> "loop",
                         d |-> [d2 EXCEPT !.messages = Append(@, Item(msg))],
                         upd |-> TRUE]
          [] msg.t = "Chunk" ->
               IF d1.payload # "None"
               THEN [next |-> "loop",
                     d |-> [d1 EXCEPT !.payload = IF @ = "Read" THEN c.st ELSE @],
                     upd |-> TRUE]
               ELSE [next |-> "break", d |-> violation(d1, msg.id), upd |-> TRUE]
          [] msg.t = "Eof" ->
               IF d1.payload # "None"
               THEN [next |-> "loop", d |-> close_payload(d1, "eof"), upd |-> TRUE]
               ELSE [next |-> "break", d |-> violation(d1, msg.id), upd |-> TRUE]
          [] msg.t = "IoErr" ->
               [next |-> "break",
                d |-> [client_disconnected(d0) EXCEPT !.error = "Io"],
                upd |-> FALSE]
          [] OTHER ->
               [next |-> "break", d |-> malformed(d0, msg.id), upd |-> FALSE]

DecodeChoices(d, mode) ==
    IF d.read_buf = <<>> THEN {NoChoice}
    ELSE LET msg == Head(d.read_buf)
         IN  IF msg.t = "Head" /\ is_empty(d.state) THEN HandlerChoices(msg, mode)
             ELSE IF msg.t = "Chunk" /\ d.payload = "Read"
             THEN {[NoChoice EXCEPT !.st = st] : st \in FeedStatus}
             ELSE {NoChoice}

\* The end of poll_request: refresh the keep-alive deadline.
refresh_ka(d, upd) ==
    IF upd /\ d.ka_timer # "None" /\ d.config.keep_alive > 0
    THEN [d EXCEPT !.ka_expire = d.config.keep_alive]
    ELSE d

\* "set new state" at the end of one turn of poll_response's loop.
set_state(h) ==
    IF ~h.ok THEN [next |-> "err", err |-> "Io", d |-> h.d]
    ELSE [next |-> IF is_empty(h.st) THEN "break" ELSE "continue",
          err |-> "None",
          d |-> [h.d EXCEPT !.state = h.st]]

\* No new state in this turn: retry decoding behind a pending service
\* call, go on with the queue otherwise.
no_state(d) ==
    [next |-> IF is_call(d.state) THEN "request"
              ELSE IF d.messages # <<>> THEN "continue"
              ELSE "break",
     err |-> "None", d |-> d]

\* A body error taken for the end of the body.
body_error_ends_body(d) ==
    [next |-> "continue", err |-> "None",
     d |-> [d EXCEPT !.write_buf = Append(@, Unit("last", d.state.id, 0)),
                     !.state = StateNone]]

\* stream.poll_next().map_err(|_| DispatchError::Unknown)?
body_error(d) == [next |-> "err", err |-> "Unknown", d |-> d]

\* A body loop that never sees the write buffer as full.
below_high_water_always(d) == TRUE

\* if self.write_buf.len() < HW_BUFFER_SIZE
below_high_water(d) == BufLen(d.write_buf) < HW_BUFFER_SIZE

\* One turn of poll_response's loop.
\* next: "continue", "break" (return Ok(false)), "write" (return Ok(true)),
\* "wait" (return Ok(false) from the body loop), "request" (call
\* poll_request), "err".
poll_response_step(d, c) ==
    LET st == d.state
        f  == IF st.fut = "poll" THEN c.o ELSE st.fut
        dp == [d EXCEPT !.state.fut = "pending"]
    IN  CASE st.kind = "None" ->
               IF d.messages = <<>> THEN no_state(d)
               ELSE LET m  == Head(d.messages)
                        d1 == [d EXCEPT !.messages = Tail(@)]
                    IN  IF m.kind = "Item"
                        THEN set_state(handle_request(d1, m, c))
                        ELSE set_state(send_response(d1, m.id, m.code, OwnResponse(c.r.ka)))
          [] st.kind = "ExpectCall" ->
               IF f = "ready"
               THEN [next |-> "continue", err |-> "None",
                     d |-> [send_continue(d, st.id) EXCEPT
                               !.state = ServiceCall(st.id, "poll"),
                               !.service = Append(@, st.id)]]
               ELSE IF f = "pending" THEN no_state(dp)
               ELSE set_state(send_response(d, st.id, HandlerStatus, c.r))
          [] st.kind = "ServiceCall" ->
               IF f = "ready"
               THEN LET h == send_response(d, st.id, HandlerStatus, c.r)
                    IN  IF h.ok
                        THEN [next |-> "continue", err |-> "None",
                              d |-> [h.d EXCEPT !.state = h.st]]
                        ELSE [next |-> "err", err |-> "Io", d |-> h.d]
               ELSE IF f = "pending" THEN no_state(dp)
               ELSE set_state(send_response(d, st.id, HandlerStatus, c.r))
          [] OTHER ->
               IF below_high_water(d)
               THEN IF f = "ready"
                    THEN IF st.left > 0
                         THEN [next |-> "continue", err |-> "None",
                               d |-> [d EXCEPT
                                   !.write_buf = Append(@, Unit("chunk", st.id, 0)),
                                   !.state = SendPayload(st.id, st.left - 1)]]
                         ELSE [next |-> "continue", err |-> "None",
                               d |-> [d EXCEPT
                                   !.write_buf = Append(@, Unit("last", st.id, 0)),
                                   !.state = StateNone]]
                    ELSE IF f = "pending"
                    THEN [next |-> "wait", err |-> "None", d |-> dp]
                    ELSE body_error(d)
               ELSE [next |-> "write", err |-> "None", d |-> d]

ResponseChoices(d, mode) ==
    LET st  == d.state
        rs  == ResponsesOf(mode)
        fs  == IF st.fut = "poll" THEN FirstPoll(mode) ELSE {st.fut}
    IN  CASE st.kind = "None" ->
               IF d.messages = <<>> THEN {NoChoice}
               ELSE IF Head(d.messages).kind = "Item"
               THEN HandlerChoices(Head(d.messages), mode)
               ELSE {[NoChoice EXCEPT !.r = OwnResponse(r.ka)] : r \in rs}
          [] st.kind = "ExpectCall" ->
               {[NoChoice EXCEPT !.o = f] : f \in fs \ {"err"}}
               \cup {[NoChoice EXCEPT !.o = f, !.r = r] : f \in fs \cap {"err"}, r \in rs}
          [] st.kind = "ServiceCall" ->
               {[NoChoice EXCEPT !.o = f] : f \in fs \cap {"pending"}}
               \cup {[NoChoice EXCEPT !.o = f, !.r = r] : f \in fs \ {"pending"}, r \in rs}
          [] OTHER ->
               {[NoChoice EXCEPT !.o = f] : f \in fs}

\* A branch test that holds only once reads are disconnected too.
shutting_down_after_read_disconnect(d) ==
    {"SHUTDOWN", "READ_DISCONNECT"} \subseteq d.flags

\* The branch test of Dispatcher::poll.
shutting_down(d) == "SHUTDOWN" \in d.flags

\* The SHUTDOWN branch of Dispatcher::poll; sh: what io.shutdown() returns.
\* res: "ok", "pending" or the error.
shutdown_branch(d, w, sh) ==
    LET f == poll_flush(d, w)
    IN  IF "WRITE_DISCONNECT" \in d.flags
        THEN [res |-> "ok", d |-> d, n |-> 0, wb |-> FALSE, shut |-> FALSE]
        ELSE IF f.err # "None"
        THEN [res |-> f.err, d |-> f.d, n |-> f.n, wb |-> FALSE, shut |-> FALSE]
        ELSE IF f.d.write_buf # <<>>
        THEN [res |-> "pending", d |-> f.d, n |-> f.n, wb |-> f.wb, shut |-> FALSE]
        ELSE [res |-> IF sh = "ready" THEN "ok"
                      ELSE IF sh = "pending" THEN "pending" ELSE "Io",
              d |-> f.d, n |-> f.n, wb |-> f.wb, shut |-> sh = "pending"]

\* The idle decision that sets SHUTDOWN and returns NotReady without
\* polling again.
keepalive_and_stream_errors_waits(d) ==
    IF d.error # "None"
    THEN [res |-> d.error, d |-> [d EXCEPT !.error = "None"]]
    ELSE IF "STARTED" \in d.flags /\ "KEEPALIVE" \notin d.flags
    THEN [res |-> "pending", d |-> [d EXCEPT !.flags = @ \cup {"SHUTDOWN"}]]
    ELSE IF "SHUTDOWN" \in d.flags
    THEN [res |-> "again", d |-> d]
    ELSE [res |-> "pending", d |-> d]

\* keep-alive and stream errors: the decision of an idle dispatcher with
\* an empty write buffer.
keepalive_and_stream_errors(d) ==
    IF d.error # "None"
    THEN [res |-> d.error, d |-> [d EXCEPT !.error = "None"]]
    ELSE IF "STARTED" \in d.flags /\ "KEEPALIVE" \notin d.flags
    THEN [res |-> "again", d |-> [d EXCEPT !.flags = @ \cup {"SHUTDOWN"}]]
    ELSE IF "SHUTDOWN" \in d.flags
    THEN [res |-> "again", d |-> d]
    ELSE [res |-> "pending", d |-> d]

\* The end of Dispatcher::poll, after the response loop.
\* res: "ok", "pending", "again" (self.poll()) or the error.
finish_poll(d) ==
    LET fl == IF "READ_DISCONNECT" \in d.flags /\ is_empty(d.state)
              THEN d.flags \cup {"SHUTDOWN"} ELSE d.flags
        d1 == [d EXCEPT !.flags = fl]
    IN  IF "WRITE_DISCONNECT" \in d.flags
        THEN [res |-> "ok", d |-> d]
        ELSE IF is_empty(d.state) /\ d.write_buf = <<>>
        THEN keepalive_and_stream_errors(d1)
        ELSE [res |-> "pending", d |-> d1]

\* ---------------------------------------------------------------- actions
\* No function outside the dispatcher is being followed.
NoCall == [fn |-> "none"]

AsWire(f) == [i \in DOMAIN f |-> Tok(f[i], i)]

Scripts == UNION {[1..n -> TokShapes] : n \in 0..MaxScript}

TimedScripts == UNION {[1..n -> TokShapes] : n \in 0..MaxTimed}

Pipelines == UNION {[1..n -> {PlainHead}] : n \in 1..MaxPipeline}

BodyScripts ==
    UNION {{[i \in 1..(n + 1) |-> IF i = 1 THEN BodyHead ELSE t[i - 1]] :
               t \in [1..n -> {ChunkTok, EofTok, PlainHead}]} : n \in 1..MaxBody}

Flood == [i \in 1..FloodLen |-> PlainHead]

ExpectPipeline == [i \in 1..MaxPipeline |-> IF i = MaxPipeline THEN ExpectHead ELSE PlainHead]

Start ==
    /\ reads = 0
    /\ avail = 0
    /\ out = <<>>
    /\ writable = TRUE
    /\ shut = FALSE
    /\ pc = "parked"
    /\ ret = "poll"
    /\ updated = FALSE
    /\ need_write = FALSE
    /\ entries = 0
    /\ notify = TRUE
    /\ result = "pending"

\* Any short client script, left open or closed by the client, any
\* handlers; no timers.
InitProtocol ==
    /\ inner = with_timeout(NoTimers, 0)
    /\ \E f \in Scripts : wire = AsWire(f)
    /\ wend \in {"open", "eof"}
    /\ handlers = "any"

\* Any configuration of the timers, any end of the stream, any handlers.
InitTimers ==
    /\ \E cfg \in Configs, timeout \in {0, ClientTimeout} :
          inner = with_timeout(cfg, timeout)
    /\ \E f \in TimedScripts : wire = AsWire(f)
    /\ wend \in {"open", "eof", "reset", "err"}
    /\ handlers = "any"

\* Pipelined requests without bodies, handlers of any timing.
InitPipeline ==
    /\ inner = with_timeout(NoTimers, 0)
    /\ \E f \in Pipelines : Len(f) > MaxScript /\ wire = AsWire(f)
    /\ wend = "open"
    /\ handlers = "plain"

\* A request with a body, its chunks and what follows it.
InitBody ==
    /\ inner = with_timeout(NoTimers, 0)
    /\ \E f \in BodyScripts : Len(f) > MaxScript /\ wire = AsWire(f)
    /\ wend = "open"
    /\ handlers = "plain"

\* Pipelined requests, the last of them with Expect: 100-continue.
InitExpect ==
    /\ inner = with_timeout(NoTimers, 0)
    /\ wire = AsWire(ExpectPipeline)
    /\ wend = "open"
    /\ handlers = "plain"

\* A flood of pipelined requests behind a slow handler.
InitFlood ==
    /\ inner = with_timeout(NoTimers, 0)
    /\ wire = AsWire(Flood)
    /\ wend = "open"
    /\ handlers = "slow"

Init ==
    /\ InitProtocol \/ InitTimers \/ InitPipeline \/ InitBody \/ InitExpect
       \/ InitFlood
    /\ Start
    /\ call = NoCall

Parked == pc = "parked" /\ result = "pending"

env == <<wire, reads, avail, wend, out, writable, shut, handlers, call>>

loc == <<ret, updated, need_write, entries>>

\* The future resolves: Ok(Ready) or Err.
Resolve(res) ==
    /\ pc' = "done"
    /\ result' = res

\* The poll returns NotReady.
Park ==
    /\ pc' = "parked"
    /\ result' = result

\* --- environment, between two wake-ups
\* More of the client's units (or the end of its stream) reach the socket.
Arrive ==
    /\ Parked
    /\ \E k \in (avail + 1)..(Len(wire)
                                + IF wend \in {"eof", "reset", "err"} THEN 1 ELSE 0) :
          avail' = k
    /\ notify' = TRUE
    /\ UNCHANGED <<inner, wire, reads, wend, out, writable, shut, handlers, call,
                   pc, result, loc>>

\* One tick passes; an armed timer that reaches its deadline fires.
Tick ==
    /\ Parked
    /\ inner.ka_timer = "Armed"
    /\ inner' = [inner EXCEPT !.tleft = @ - 1,
                              !.ka_expire = Max(0, @ - 1),
                              !.ka_timer = IF inner.tleft = 1 THEN "Fired" ELSE @]
    /\ notify' = (notify \/ inner.tleft = 1)
    /\ UNCHANGED <<env, pc, result, loc>>

\* The pending expect future, service future or body stream completes.
FutureCompletes ==
    /\ Parked
    /\ inner.state.fut = "pending"
    /\ \E f \in Completions(handlers) : inner' = [inner EXCEPT !.state.fut = f]
    /\ notify' = TRUE
    /\ UNCHANGED <<env, pc, result, loc>>

\* The body consumer drains its buffer (Pause -> Read) or is dropped.
Consumer ==
    /\ Parked
    /\ inner.payload \in {"Read", "Pause"}
    /\ \E s \in {"Read", "Dropped"} :
          /\ s # inner.payload
          /\ inner' = [inner EXCEPT !.payload = s]
    /\ notify' = TRUE
    /\ UNCHANGED <<env, pc, result, loc>>

\* The transport, blocked on a write, accepts bytes again.
Writable ==
    /\ Parked
    /\ ~writable
    /\ writable' = TRUE
    /\ notify' = TRUE
    /\ UNCHANGED <<inner, wire, reads, avail, wend, out, shut, handlers, call,
                   pc, result, loc>>

\* The transport's pending shutdown makes progress.
ShutdownProgress ==
    /\ Parked
    /\ shut
    /\ shut' = FALSE
    /\ notify' = TRUE
    /\ UNCHANGED <<inner, wire, reads, avail, wend, out, writable, handlers, call,
                   pc, result, loc>>

\* --- Dispatcher::poll
\* The runtime polls the notified task.
Wake ==
    /\ Parked
    /\ notify
    /\ notify' = FALSE
    /\ pc' = "keepalive"
    /\ entries' = 0
    /\ UNCHANGED <<inner, env, ret, updated, need_write, result>>

\* inner.poll_keepalive()?
PollKeepalive ==
    /\ pc = "keepalive"
    /\ \E ka \in {r.ka : r \in ResponsesOf(handlers)} :
          LET k == poll_keepalive(inner, ka)
          IN  /\ inner' = k.d
              /\ IF k.err # "None" THEN Resolve(k.err)
                 ELSE pc' = "branch" /\ result' = result
    /\ UNCHANGED <<env, loc, notify>>

\* if inner.flags.contains(Flags::SHUTDOWN) { ... }
Shutdown ==
    /\ pc = "branch"
    /\ shutting_down(inner)
    /\ \E sh \in Outcomes, w \in Writes(Len(inner.write_buf), writable) :
          LET s == shutdown_branch(inner, w, sh)
          IN  /\ inner' = s.d
              /\ out' = out \o SubSeq(inner.write_buf, 1, s.n)
              /\ writable' = (writable /\ ~s.wb)
              /\ shut' = s.shut
              /\ IF s.res = "pending" THEN Park ELSE Resolve(s.res)
    /\ UNCHANGED <<wire, reads, avail, wend, handlers, call, loc, notify>>

\* read socket into a buf
ReadPhase ==
    /\ pc = "branch"
    /\ ~shutting_down(inner)
    /\ IF "READ_DISCONNECT" \in inner.flags
       THEN /\ pc' = "request"
            /\ UNCHANGED <<inner, wire, reads, avail, wend, result>>
       ELSE LET n     == Min(avail, Len(wire))
                ended == avail > Len(wire)
                rd    == read_available(n, ended, wend)
            IN  /\ wire' = SubSeq(wire, n + 1, Len(wire))
                /\ reads' = IF n > 0 THEN Min(reads + 1, MaxReads) ELSE reads
                /\ avail' = 0
                /\ wend' = IF ended THEN "gone" ELSE wend
                /\ inner' = [inner EXCEPT
                      !.read_buf = @ \o SubSeq(wire, 1, n),
                      !.flags = IF rd = "eof" THEN @ \cup {"READ_DISCONNECT"} ELSE @]
                /\ IF rd = "err" THEN Resolve("Io")
                   ELSE pc' = "request" /\ result' = result
    /\ ret' = "poll"
    /\ UNCHANGED <<out, writable, shut, handlers, call, updated, need_write, entries,
                   notify>>

\* poll_request returns upd to its caller.
Return(upd) ==
    IF ret = "poll" \/ upd
    THEN pc' = "response" /\ need_write' = need_write
    ELSE pc' = "flush" /\ need_write' = FALSE

\* limit a mount of non processed requests
PollRequest ==
    /\ pc = "request"
    /\ IF Len(inner.messages) >= MAX_PIPELINED_MESSAGES \/ ~can_read(inner)
       THEN Return(FALSE) /\ updated' = updated
       ELSE pc' = "decode" /\ updated' = FALSE /\ need_write' = need_write
    /\ UNCHANGED <<inner, env, ret, entries, notify, result>>

\* One turn of the decode loop.
Decode ==
    /\ pc = "decode"
    /\ \E c \in DecodeChoices(inner, handlers) :
          LET s   == decode_step(inner, c)
              upd == updated \/ s.upd
          IN  /\ updated' = upd
              /\ CASE s.next = "loop" ->
                        /\ inner' = s.d
                        /\ pc' = "decode"
                        /\ UNCHANGED <<need_write, result>>
                   [] s.next = "break" ->
                        /\ inner' = refresh_ka(s.d, upd)
                        /\ Return(upd)
                        /\ result' = result
                   [] OTHER ->
                        /\ inner' = s.d
                        /\ Resolve("Io")
                        /\ need_write' = need_write
    /\ UNCHANGED <<env, ret, entries, notify>>

\* One turn of poll_response's loop.  A turn that changes nothing and
\* continues repeats forever: the call never returns ("spin").
PollResponse ==
    /\ pc = "response"
    /\ \E c \in ResponseChoices(inner, handlers) :
          LET s == poll_response_step(inner, c)
          IN  /\ inner' = s.d
              /\ CASE s.next = "continue" ->
                        /\ pc' = IF s.d = inner THEN "spin" ELSE "response"
                        /\ UNCHANGED <<ret, need_write, result>>
                   [] s.next = "request" ->
                        /\ pc' = "request"
                        /\ ret' = "response"
                        /\ UNCHANGED <<need_write, result>>
                   [] s.next \in {"break", "wait"} ->
                        /\ pc' = "flush"
                        /\ need_write' = FALSE
                        /\ UNCHANGED <<ret, result>>
                   [] s.next = "write" ->
                        /\ pc' = "flush"
                        /\ need_write' = TRUE
                        /\ UNCHANGED <<ret, result>>
                   [] OTHER ->
                        /\ Resolve(s.err)
                        /\ UNCHANGED <<ret, need_write>>
    /\ UNCHANGED <<env, updated, entries, notify>>

\* if inner.poll_flush()? || !need_write { break; }
Flush ==
    /\ pc = "flush"
    /\ \E w \in Writes(Len(inner.write_buf), writable) :
          LET f == poll_flush(inner, w)
          IN  /\ inner' = f.d
              /\ out' = out \o SubSeq(inner.write_buf, 1, f.n)
              /\ writable' = (writable /\ ~f.wb)
              /\ IF f.err # "None" THEN Resolve(f.err)
                 ELSE /\ pc' = IF f.wb \/ ~need_write THEN "finish" ELSE "response"
                      /\ result' = result
    /\ ret' = "poll"
    /\ UNCHANGED <<wire, reads, avail, wend, shut, handlers, call, updated,
                   need_write, entries, notify>>

\* client is gone / keep-alive and stream errors
Finish ==
    /\ pc = "finish"
    /\ LET f == finish_poll(inner)
       IN  /\ inner' = f.d
           /\ CASE f.res = "pending" -> Park /\ entries' = entries
                [] f.res = "again" ->
                     pc' = "keepalive" /\ entries' = entries + 1 /\ result' = result
                [] OTHER -> Resolve(f.res) /\ entries' = entries
    /\ UNCHANGED <<env, ret, updated, need_write, notify>>

Next ==
    \/ Arrive
    \/ Tick
    \/ FutureCompletes
    \/ Consumer
    \/ Writable
    \/ ShutdownProgress
    \/ Wake
    \/ PollKeepalive
    \/ Shutdown
    \/ ReadPhase
    \/ PollRequest
    \/ Decode
    \/ PollResponse
    \/ Flush
    \/ Finish

Spec == Init /\ [][Next]_vars

\* ----------------------------------------------------------------- claims
\* The ids of the responses whose status line is in buf, in buffer order.
StatusIds(buf) ==
    LET heads == SelectSeq(buf, LAMBDA u : u.u = "status")
    IN  [i \in DOMAIN heads |-> heads[i].id]

\* Everything encoded so far: what the transport took, then the write buffer.
Encoded == out \o inner.write_buf

\* Nothing is scheduled and nothing can wake the task up again.
Quiet ==
    /\ Parked
    /\ ~notify
    /\ wire = <<>>
    /\ wend \in {"open", "gone"}
    /\ inner.state.fut # "pending"
    /\ inner.payload \notin {"Read", "Pause"}
    /\ inner.ka_timer # "Armed"
    /\ writable
    /\ ~shut

\* A unit u of a response with this status code is in buf.
Has(buf, u, code) == \E i \in DOMAIN buf : buf[i].u = u /\ buf[i].code = code

\* The next unit Codec::decode will be given.
Decoding(t) ==
    /\ pc = "decode"
    /\ inner.read_buf # <<>>
    /\ Head(inner.read_buf).t = t

\* Once reads are disconnected nothing more is decoded.
NoFurtherDecode ==
    "READ_DISCONNECT" \in inner.flags =>
        /\ inner'.read_buf = inner.read_buf
        /\ "READ_DISCONNECT" \in inner'.flags

\* poll_response takes an error entry off the queue.
EmitsErrorEntry ==
    /\ pc = "response"
    /\ is_empty(inner.state)
    /\ inner.messages # <<>>
    /\ Head(inner.messages).kind = "Error"

\* A malformed request was decoded on this connection.
Malformed ==
    \/ \E i \in DOMAIN inner.messages : inner.messages[i].code = 400
    \/ Has(Encoded, "status", 400)

\* Idle, started, keep-alive unset, no deferred error.
IdleClose ==
    /\ pc = "finish"
    /\ is_empty(inner.state)
    /\ inner.write_buf = <<>>
    /\ "STARTED" \in inner.flags
    /\ "KEEPALIVE" \notin inner.flags
    /\ "WRITE_DISCONNECT" \notin inner.flags
    /\ inner.error = "None"

\* C1: responses are encoded into the write buffer strictly in the order in
\* which their requests or error entries were decoded.
C1_DecodeOrder ==
    LET ids == StatusIds(Encoded)
    IN  \A i, j \in DOMAIN ids : i < j => ids[i] < ids[j]

\* C2: valid pipelined requests that arrived in a single read are all
\* answered, in request order: the connection never comes to rest, handlers
\* done and transport writable, with a request undecoded, queued or
\* unanswered.
C2_AllAnswered ==
    (/\ Quiet
     /\ handlers = "plain"
     /\ reads = 1
     /\ is_empty(inner.state))
    => /\ inner.read_buf = <<>>
       /\ inner.messages = <<>>
       /\ StatusIds(out) = inner.service
       /\ \A i, j \in DOMAIN inner.service : i < j => inner.service[i] < inner.service[j]

C3_Step ==
    /\ Decoding("Bad") =>
          /\ inner'.messages =
                Append(inner.messages, ErrorEntry(Head(inner.read_buf).id, 400))
          /\ "READ_DISCONNECT" \in inner'.flags
          /\ inner'.error = "Parse"
          /\ inner'.service = inner.service
          /\ inner'.expect = inner.expect
          /\ pc' # "decode"
    /\ NoFurtherDecode
    /\ EmitsErrorEntry =>
          LET m == Head(inner.messages)
          IN  /\ inner'.write_buf =
                    inner.write_buf \o <<Unit("status", m.id, m.code),
                                         Unit("headers", m.id, m.code)>>
              /\ inner'.service = inner.service
              /\ inner'.expect = inner.expect

\* C3: a malformed request enqueues a 400 error entry, sets READ_DISCONNECT
\* and records the parse error; nothing is decoded after it; the entry is
\* answered without a call of the expect or service handler, and what is
\* encoded for it begins with its status line.
C3_Malformed == [][C3_Step]_vars

\* C3's case: the 400 of a malformed request reached the transport.
C3_Witness ==
    /\ Has(out, "status", 400)
    /\ "READ_DISCONNECT" \in inner.flags
    /\ pc = "done"
    /\ result = "Parse"

\* C4: after a malformed request the connection future does not complete,
\* successfully or with the recorded parse error, before the whole 400
\* response reached the transport.
C4_FlushedBeforeClose ==
    (pc = "done" /\ result \in {"ok", "Parse"} /\ Malformed)
    => (Has(out, "status", 400) /\ Has(out, "headers", 400))

\* C5: the pending-message queue never holds more than
\* MAX_PIPELINED_MESSAGES entries.
C5_QueueBounded == Len(inner.messages) <= MAX_PIPELINED_MESSAGES

\* C6: while the consumer of the payload channel reports Pause, no further
\* message is decoded from the read buffer.
C6_PauseStopsDecoding ==
    [][inner.payload = "Pause" => inner'.read_buf = inner.read_buf]_vars

C7_Step ==
    IdleClose =>
        /\ "SHUTDOWN" \in inner'.flags
        /\ pc' = "keepalive"
        /\ entries' = entries + 1
        /\ notify' = notify

\* The task never waits in the SHUTDOWN phase with an empty write buffer
\* unless the transport's shutdown is what it waits for.
C7_NoWait ==
    (Parked /\ ~notify /\ "SHUTDOWN" \in inner.flags /\ inner.write_buf = <<>>)
    => shut

\* C7: an idle, started dispatcher without KEEPALIVE and without a deferred
\* error sets SHUTDOWN and polls again in the same wake-up; in the SHUTDOWN
\* phase, once the write buffer is empty, the future is pending only while
\* the transport's shutdown is.
C7_IdleClose == []C7_NoWait /\ [][C7_Step]_vars

\* C7's case: the future completed in the wake-up that found it idle.
C7_Witness ==
    /\ pc = "done"
    /\ result = "ok"
    /\ entries = 1
    /\ inner.ka_timer = "None"
    /\ inner.flags = {"STARTED", "SHUTDOWN", "READ_DISCONNECT"}
    /\ inner.service # <<>>
    /\ Has(out, "headers", HandlerStatus)

\* C8: once a 408 was encoded, the connection does not terminate (unless
\* the transport fails) before the complete 408 reached the transport.
C8_TimeoutResponseWritten ==
    (pc = "done" /\ result # "Io" /\ Has(Encoded, "status", 408))
    => (Has(out, "status", 408) /\ Has(out, "headers", 408))

\* C9: a connection future that has a recorded fatal error never completes
\* successfully.
C9_NeverOk == (pc = "done" /\ result = "ok") => inner.error = "None"

C10_Step ==
    /\ Decoding("IoErr") =>
          /\ "READ_DISCONNECT" \in inner'.flags
          /\ inner'.error = "Io"
          /\ inner'.messages = inner.messages
          /\ inner'.payload = "None"
          /\ inner'.chan = IF inner.payload # "None" THEN "Incomplete" ELSE inner.chan
          /\ inner'.state = inner.state
          /\ inner'.write_buf = inner.write_buf
          /\ pc' # "decode"
    /\ NoFurtherDecode

\* C10: a parse error classified as I/O disconnects reads, records the I/O
\* error, ends an active payload channel with Incomplete, enqueues nothing
\* and ends decoding on the connection.
C10_IoParseError == [][C10_Step]_vars

\* C10's case: the I/O parse error hit while a payload channel was active.
C10_Witness ==
    /\ inner.error = "Io"
    /\ inner.chan = "Incomplete"
    /\ "READ_DISCONNECT" \in inner.flags
    /\ inner.payload = "None"
    /\ Len(inner.service) = 1

\* The step in which the future completes successfully.
CompletesOk == pc # "done" /\ pc' = "done" /\ result' = "ok"

\* io.shutdown() returned Ready in the SHUTDOWN branch, after a flush that
\* left the write buffer empty.
ShutdownSucceeds ==
    /\ pc = "branch"
    /\ "SHUTDOWN" \in inner.flags
    /\ "WRITE_DISCONNECT" \notin inner.flags
    /\ inner'.write_buf = <<>>
    /\ out' = out \o inner.write_buf

C11_Step ==
    (CompletesOk /\ "WRITE_DISCONNECT" \in inner'.flags)
    => (inner'.write_buf = <<>> /\ ShutdownSucceeds)

\* C11: with WRITE_DISCONNECT set the future completes successfully only
\* with an empty write buffer and after the shutdown of the transport's
\* write half succeeded; it never completes successfully while encoded
\* response units are still in the write buffer.
C11_DrainedBeforeOk == [][C11_Step]_vars

\* The timer expired in the SHUTDOWN phase and poll_keepalive is about to
\* see it.
ExpiredInShutdown ==
    /\ pc = "keepalive"
    /\ "SHUTDOWN" \in inner.flags
    /\ inner.ka_timer = "Fired"

C12_Step ==
    ExpiredInShutdown => (pc' = "done" /\ result' = "DisconnectTimeout")

\* An expiry that has not been seen yet wakes the task up, and the future
\* does not complete before it is seen.
C12_NotIgnored ==
    ("SHUTDOWN" \in inner.flags /\ inner.ka_timer = "Fired")
    => (pc = "keepalive" \/ (Parked /\ notify))

\* C12: once SHUTDOWN is set, an expiry of the timer makes the future fail
\* with DisconnectTimeout: the task is woken up for it, and the wake-up
\* that sees it ends in the error, never in success and never in a wait.
C12_DisconnectTimeout == []C12_NotIgnored /\ [][C12_Step]_vars

\* C12's case: the timer expired while the transport's shutdown was
\* pending, and the future failed with DisconnectTimeout.
C12_Witness ==
    /\ pc = "done"
    /\ result = "DisconnectTimeout"
    /\ shut
    /\ inner.write_buf = <<>>
    /\ inner.config.client_disconnect > 0
    /\ inner.tleft = 0

\* The positions of the 100 Continue lines in buf.
Continues(buf) == {i \in DOMAIN buf : buf[i].u = "continue"}

\* The expect handler, the main handler was called for request k.
ExpectCalled(k) == \E i \in DOMAIN inner.expect : inner.expect[i] = k

ServiceCalled(k) == \E i \in DOMAIN inner.service : inner.service[i] = k

\* The expect future of request k has not completed yet.
ExpectPending(k) == inner.state.kind = "ExpectCall" /\ inner.state.id = k

\* The request this step hands to handle_request or whose expect future
\* it polls: k is its id and e tells whether it declares Expect.
Handles(k, e) ==
    \/ /\ pc = "decode"
       /\ inner.read_buf # <<>>
       /\ is_empty(inner.state)
       /\ Head(inner.read_buf).t = "Head"
       /\ Head(inner.read_buf).id = k
       /\ Head(inner.read_buf).expect = e
    \/ /\ pc = "response"
       /\ is_empty(inner.state)
       /\ inner.messages # <<>>
       /\ Head(inner.messages).kind = "Item"
       /\ Head(inner.messages).id = k
       /\ Head(inner.messages).expect = e
    \/ /\ pc = "response"
       /\ ExpectPending(k)
       /\ e

\* 100 Continue is written once per request, for a request whose expect
\* handler and main handler were called.
C13_Once ==
    \A i \in Continues(Encoded) :
        /\ \A j \in Continues(Encoded) : Encoded[i].id = Encoded[j].id => i = j
        /\ ExpectCalled(Encoded[i].id)
        /\ ServiceCalled(Encoded[i].id)

\* 100 Continue comes after everything encoded for earlier requests and
\* before everything encoded for its own request and for later ones, and no
\* earlier request is still waiting in the queue.
C13_Placed ==
    \A i \in Continues(Encoded) :
        /\ \A j \in DOMAIN Encoded :
              /\ j < i => Encoded[j].id < Encoded[i].id
              /\ j > i => Encoded[j].id >= Encoded[i].id
        /\ \A j \in DOMAIN inner.messages : inner.messages[j].id > Encoded[i].id

\* An expect handler that failed: no 100 Continue, no call of the main
\* handler, and the error response is encoded.
C13_Failed ==
    \A k \in 1..FloodLen :
        (ExpectCalled(k) /\ ~ExpectPending(k) /\ ~ServiceCalled(k) /\ pc # "done")
        => /\ \A i \in Continues(Encoded) : Encoded[i].id # k
           /\ \E i \in DOMAIN Encoded :
                 Encoded[i] = Unit("status", k, HandlerStatus)

\* The main handler of a request that declares Expect is called in the step
\* in which its expect future is ready, after 100 Continue was appended to
\* the write buffer.
C13_Step ==
    \A k \in 1..FloodLen :
        (Handles(k, TRUE) /\ inner'.service # inner.service)
        => /\ inner'.service = Append(inner.service, k)
           /\ ExpectCalled(k)'
           /\ \E i \in DOMAIN inner'.write_buf :
                 /\ i > Len(inner.write_buf)
                 /\ inner'.write_buf[i] = Unit("continue", k, 100)
                 /\ \A j \in DOMAIN inner'.write_buf :
                       (j # i /\ inner'.write_buf[j].id = k) => j > i

\* C13: for a request with Expect: 100-continue the main handler is called
\* only after the expect handler succeeded; 100 Continue is appended to the
\* write buffer exactly once, after the complete response of the previous
\* request and before this request's final response; when the expect
\* handler fails no 100 Continue is written, the main handler is not called
\* and an error response is encoded.
C13_ExpectContinue ==
    /\ [](C13_Once /\ C13_Placed /\ C13_Failed)
    /\ [][C13_Step]_vars

C14_Step ==
    "SHUTDOWN" \in inner.flags =>
        /\ "SHUTDOWN" \in inner'.flags
        /\ inner'.read_buf = inner.read_buf
        /\ inner'.messages = inner.messages
        /\ inner'.service = inner.service
        /\ inner'.expect = inner.expect
        /\ pc' \notin {"request", "decode", "response"}

\* C14: once SHUTDOWN is set it stays set, and no later step of the
\* connection calls the main handler or the expect handler, takes a message
\* off the read buffer or off the queue, or enters poll_request or
\* poll_response.
C14_NoDispatchInShutdown == [][C14_Step]_vars

\* C14's case: a request reached the socket while the transport's shutdown
\* was pending, and the future completed without reading it.
C14_Witness ==
    /\ pc = "done"
    /\ result = "ok"
    /\ "SHUTDOWN" \in inner.flags
    /\ "WRITE_DISCONNECT" \notin inner.flags
    /\ inner.service # <<>>
    /\ wire # <<>>
    /\ avail > 0

\* C18: no call of poll_response repeats a turn of its loop that changes
\* nothing: a pending expect future or handler future ends the call, also
\* when the queue of pending messages is not empty.
C18_NoSpin == pc # "spin"

\* The number of 500 error entries in the queue q.
Fabricated(q) == Len(SelectSeq(q, LAMBDA e : e.kind = "Error" /\ e.code = 500))

\* A body chunk or an end-of-body marker is about to be decoded with no
\* payload channel.
Violation ==
    /\ Decoding("Chunk") \/ Decoding("Eof")
    /\ inner.payload = "None"

C20_Step ==
    /\ Violation =>
          /\ inner'.messages =
                Append(inner.messages, ErrorEntry(Head(inner.read_buf).id, 500))
          /\ "READ_DISCONNECT" \in inner'.flags
          /\ inner'.error = "InternalError"
    /\ ~Violation =>
          /\ Fabricated(inner'.messages) <= Fabricated(inner.messages)
          /\ inner'.error = "InternalError" => inner.error = "InternalError"
    /\ (~Has(Encoded, "status", 500) /\ Has(Encoded, "status", 500)') =>
          (EmitsErrorEntry /\ Head(inner.messages).code = 500)

\* C20: a 500 error entry is enqueued exactly by the steps that decode a
\* body chunk or an end-of-body marker with no payload channel; such a step
\* also sets READ_DISCONNECT and records InternalError; a 500 status line
\* is encoded only for such an entry.
C20_InternalError == [][C20_Step]_vars

\* C20's case: the 500 of a protocol violation reached the transport and
\* the future failed with the recorded InternalError.
C20_Witness ==
    /\ pc = "done"
    /\ result = "InternalError"
    /\ Has(out, "status", 500)
    /\ "READ_DISCONNECT" \in inner.flags

\* ---------------------------------------------------------------- body.rs
\* All the dispatcher's variables, at rest while a function outside the
\* dispatcher is followed.
dispatcher == <<inner, wire, reads, avail, wend, out, writable, shut, handlers,
                pc, ret, updated, need_write, entries, notify, result>>

Idle ==
    /\ inner = with_timeout(NoTimers, 0)
    /\ wire = <<>>
    /\ wend = "open"
    /\ handlers = "plain"
    /\ Start

\* Bytes, and characters with their UTF-8 encoding: "a" is one byte long,
\* "E" (U+00E9) two.
ByteVals == {97, 195, 169}

Chars == {"a", "E"}

Utf8(c) == IF c = "a" THEN <<97>> ELSE <<195, 169>>

RECURSIVE as_bytes(_)
\* str::as_ref::<[u8]>, String::into_bytes
as_bytes(str) == IF str = <<>> THEN <<>> ELSE Utf8(Head(str)) \o as_bytes(Tail(str))

ByteSeqs == UNION {[1..n -> ByteVals] : n \in 0..MaxContent}

Strs == UNION {[1..n -> Chars] : n \in 0..MaxContent}

\* Kinds whose content is text, and kinds whose content is bytes.
StrKinds == {"&'static str", "String"}

ByteKinds == {"Bytes", "BytesMut", "&'static [u8]", "Vec<u8>"}

\* A value that implements MessageBody.
Value(kind, data) == [kind |-> kind, data |-> data, size |-> 0]

BodyNone == Value("Body::None", <<>>)

BodyEmpty == Value("Body::Empty", <<>>)

BodyBytes(bin) == Value("Body::Bytes", bin)

UnitBody == Value("()", <<>>)

\* BodyStream::new(stream), SizedStream::new(size, stream); data: the chunks
\* the stream will yield.
BodyStream(chunks) == Value("BodyStream", chunks)

SizedStream(size, chunks) == [kind |-> "SizedStream", data |-> chunks, size |-> size]

\* Body::from_message
from_message(b) == [kind |-> "Body::Message", data |-> b, size |-> 0]

\* impl From<...> for Body
from(x) ==
    IF x.kind \in StrKinds THEN BodyBytes(as_bytes(x.data)) ELSE BodyBytes(x.data)

\* The length in bytes of a value's content: str::len, Bytes::len, ...
len(x) == IF x.kind \in StrKinds THEN Len(as_bytes(x.data)) ELSE Len(x.data)

\* enum BodySize, as values.
SizeNone == [hint |-> "None", n |-> 0]

SizeEmpty == [hint |-> "Empty", n |-> 0]

Sized(n) == [hint |-> "Sized", n |-> n]

SizeStream == [hint |-> "Stream", n |-> 0]

RECURSIVE length(_)
\* MessageBody::length
length(b) ==
    CASE b.kind = "Body::None"    -> SizeNone
      [] b.kind = "Body::Empty"   -> SizeEmpty
      [] b.kind = "()"            -> SizeEmpty
      [] b.kind = "Body::Message" -> length(b.data)
      [] b.kind = "BodyStream"    -> SizeStream
      [] b.kind = "SizedStream"   -> Sized(b.size)
      [] OTHER                    -> Sized(len(b))

\* Poll<Option<Bytes>>: Ready(Some(bytes)), Ready(None)
Some(bytes) == [some |-> TRUE, bytes |-> bytes]

None == [some |-> FALSE, bytes |-> <<>>]

\* A split that leaves the content in place.
split_to_copies(bin, at) == [taken |-> SubSeq(bin, 1, at), rest |-> bin]

\* Bytes::split_to, and mem::replace(self, empty) as split_to(len)
split_to(bin, at) ==
    [taken |-> SubSeq(bin, 1, at), rest |-> SubSeq(bin, at + 1, Len(bin))]

RECURSIVE poll_next(_)
\* MessageBody::poll_next: the item and the body afterwards.
poll_next(b) ==
    CASE b.kind \in {"Body::None", "Body::Empty", "()"} ->
             [item |-> None, body |-> b]
      [] b.kind = "Body::Message" ->
             LET r == poll_next(b.data)
             IN  [item |-> r.item, body |-> [b EXCEPT !.data = r.body]]
      [] b.kind \in {"BodyStream", "SizedStream"} ->
             IF b.data = <<>> THEN [item |-> None, body |-> b]
             ELSE [item |-> Some(Head(b.data)), body |-> [b EXCEPT !.data = Tail(@)]]
      [] OTHER ->
             IF len(b) = 0 THEN [item |-> None, body |-> b]
             ELSE LET r == split_to(b.data, Len(b.data))
                  IN  [item |-> Some(IF b.kind \in StrKinds THEN as_bytes(r.taken)
                                     ELSE r.taken),
                       body |-> [b EXCEPT !.data = r.rest]]

\* The bodies a run starts from.
FixedBodies ==
    {Value(k, d) : k \in ByteKinds \cup {"Body::Bytes"}, d \in ByteSeqs}
    \cup {Value(k, d) : k \in StrKinds, d \in Strs}

OtherBodies ==
    {BodyNone, BodyEmpty, UnitBody}
    \cup {BodyStream(c) : c \in {<<>>, <<<<97>>>>}}
    \cup {SizedStream(1, c) : c \in {<<>>, <<<<97>>>>}}

NoHint == [hint |-> "unset", n |-> 0]

\* A header of a response head: not set, or set to n.
NotSet == [set |-> FALSE, n |-> 0]

SetTo(n) == [set |-> TRUE, n |-> n]

NoHead == [size |-> NoHint, content_length |-> NotSet, chunked |-> FALSE]

InitBodies ==
    /\ Idle
    /\ \E b \in FixedBodies \cup OtherBodies :
          call = [fn |-> "body", orig |-> b, body |-> b, hint |-> NoHint,
                  head |-> NoHead, chunks |-> <<>>]

Fresh == call.hint = NoHint /\ call.head = NoHead /\ call.chunks = <<>>

\* Body::from(x)
BodyFrom ==
    /\ Fresh
    /\ call.body.kind \in ByteKinds \cup StrKinds
    /\ call' = [call EXCEPT !.body = from(@)]
    /\ UNCHANGED dispatcher

\* Body::from_message(x)
FromMessage ==
    /\ Fresh
    /\ call.body.kind # "Body::Message"
    /\ call' = [call EXCEPT !.body = from_message(@)]
    /\ UNCHANGED dispatcher

\* body.length()
Length ==
    /\ Fresh
    /\ call' = [call EXCEPT !.hint = length(call.body)]
    /\ UNCHANGED dispatcher

\* BodySize::is_eof
is_eof(size) == size.hint \in {"None", "Empty"} \/ (size.hint = "Sized" /\ size.n = 0)

\* Content-Length of a body with a stream behind it: the declared size, or
\* not set when the size is unknown.
StreamContentLength(size) == IF size.hint = "Stream" THEN NotSet ELSE SetTo(size.n)

\* Content-Length: 0 for every body that is at its end from the start.
ContentLengthWhenEof(size) ==
    IF is_eof(size) THEN SetTo(0) ELSE StreamContentLength(size)

\* Content-Length as enum Body documents it: not set for None, set to 0 for
\* Empty.
ContentLength(size) ==
    CASE size.hint = "None"  -> NotSet
      [] size.hint = "Empty" -> SetTo(0)
      [] OTHER               -> StreamContentLength(size)

\* Transfer-Encoding: chunked
Chunked(size) == size.hint = "Stream"

\* The framing headers Codec::encode writes for Message::Item((message, size)).
encode_headers(size) ==
    [size |-> size, content_length |-> ContentLength(size), chunked |-> Chunked(size)]

\* send_response: codec.encode(Message::Item((message, body.length())))
SendResponse ==
    /\ call.head = NoHead
    /\ call.chunks = <<>>
    /\ call' = [call EXCEPT !.head = encode_headers(length(call.body))]
    /\ UNCHANGED dispatcher

\* body.poll_next()
PollNext ==
    /\ Len(call.chunks) < MaxPolls
    /\ LET r == poll_next(call.body)
       IN  call' = [call EXCEPT !.body = r.body, !.chunks = Append(@, r.item)]
    /\ UNCHANGED dispatcher

NextBody == BodyFrom \/ FromMessage \/ Length \/ SendResponse \/ PollNext

SpecBody == InitBodies /\ [][NextBody]_vars

\* The bytes of a value's content.
Content(x) == IF x.kind \in StrKinds THEN as_bytes(x.data) ELSE x.data

\* A fixed in-memory body was the start of this run.
FixedBody == call.orig \in FixedBodies

C16_OneChunk ==
    FixedBody =>
        /\ call.hint # NoHint => call.hint = Sized(Len(Content(call.orig)))
        /\ \A i \in DOMAIN call.chunks :
              call.chunks[i] = IF i = 1 /\ Content(call.orig) # <<>>
                               THEN Some(Content(call.orig))
                               ELSE None

\* C16's case: a String with a two-byte character, made a Body, reported
\* its size in bytes and was polled to the end and beyond.
C16_Witness ==
    /\ call.orig = Value("String", <<"E", "a">>)
    /\ call.body.kind = "Body::Bytes"
    /\ call.hint = Sized(3)
    /\ call.chunks = <<Some(<<195, 169, 97>>), None, None>>

\* --------------------------------------------------------------- error.rs
\* http::StatusCode: the constants error.rs uses.
StatusCodes ==
    [ BAD_REQUEST |-> 400,
      UNAUTHORIZED |-> 401,
      PAYMENT_REQUIRED |-> 402,
      FORBIDDEN |-> 403,
      NOT_FOUND |-> 404,
      METHOD_NOT_ALLOWED |-> 405,
      NOT_ACCEPTABLE |-> 406,
      PROXY_AUTHENTICATION_REQUIRED |-> 407,
      REQUEST_TIMEOUT |-> 408,
      CONFLICT |-> 409,
      GONE |-> 410,
      LENGTH_REQUIRED |-> 411,
      PAYLOAD_TOO_LARGE |-> 413,
      URI_TOO_LONG |-> 414,
      UNSUPPORTED_MEDIA_TYPE |-> 415,
      RANGE_NOT_SATISFIABLE |-> 416,
      IM_A_TEAPOT |-> 418,
      MISDIRECTED_REQUEST |-> 421,
      UNPROCESSABLE_ENTITY |-> 422,
      LOCKED |-> 423,
      FAILED_DEPENDENCY |-> 424,
      UPGRADE_REQUIRED |-> 426,
      PRECONDITION_FAILED |-> 412,
      PRECONDITION_REQUIRED |-> 428,
      TOO_MANY_REQUESTS |-> 429,
      REQUEST_HEADER_FIELDS_TOO_LARGE |-> 431,
      UNAVAILABLE_FOR_LEGAL_REASONS |-> 451,
      EXPECTATION_FAILED |-> 417,
      INTERNAL_SERVER_ERROR |-> 500,
      NOT_IMPLEMENTED |-> 501,
      BAD_GATEWAY |-> 502,
      SERVICE_UNAVAILABLE |-> 503,
      GATEWAY_TIMEOUT |-> 504,
      HTTP_VERSION_NOT_SUPPORTED |-> 505,
      VARIANT_ALSO_NEGOTIATES |-> 506,
      INSUFFICIENT_STORAGE |-> 507,
      LOOP_DETECTED |-> 508,
      NOT_EXTENDED |-> 510,
      NETWORK_AUTHENTICATION_REQUIRED |-> 511,
      OK |-> 200 ]
\* error_helper!(name, status): the helper constructors.
error_helper ==
    [ ErrorBadRequest |-> "BAD_REQUEST",
      ErrorUnauthorized |-> "UNAUTHORIZED",
      ErrorPaymentRequired |-> "PAYMENT_REQUIRED",
      ErrorForbidden |-> "FORBIDDEN",
      ErrorNotFound |-> "NOT_FOUND",
      ErrorMethodNotAllowed |-> "METHOD_NOT_ALLOWED",
      ErrorNotAcceptable |-> "NOT_ACCEPTABLE",
      ErrorProxyAuthenticationRequired |-> "PROXY_AUTHENTICATION_REQUIRED",
      ErrorRequestTimeout |-> "REQUEST_TIMEOUT",
      ErrorConflict |-> "CONFLICT",
      ErrorGone |-> "GONE",
      ErrorLengthRequired |-> "LENGTH_REQUIRED",
      ErrorPayloadTooLarge |-> "PAYLOAD_TOO_LARGE",
      ErrorUriTooLong |-> "URI_TOO_LONG",
      ErrorUnsupportedMediaType |-> "UNSUPPORTED_MEDIA_TYPE",
      ErrorRangeNotSatisfiable |-> "RANGE_NOT_SATISFIABLE",
      ErrorImATeapot |-> "IM_A_TEAPOT",
      ErrorMisdirectedRequest |-> "MISDIRECTED_REQUEST",
      ErrorUnprocessableEntity |-> "UNPROCESSABLE_ENTITY",
      ErrorLocked |-> "LOCKED",
      ErrorFailedDependency |-> "FAILED_DEPENDENCY",
      ErrorUpgradeRequired |-> "UPGRADE_REQUIRED",
      ErrorPreconditionFailed |-> "PRECONDITION_FAILED",
      ErrorPreconditionRequired |-> "PRECONDITION_REQUIRED",
      ErrorTooManyRequests |-> "TOO_MANY_REQUESTS",
      ErrorRequestHeaderFieldsTooLarge |-> "REQUEST_HEADER_FIELDS_TOO_LARGE",
      ErrorUnavailableForLegalReasons |-> "UNAVAILABLE_FOR_LEGAL_REASONS",
      ErrorExpectationFailed |-> "EXPECTATION_FAILED",
      ErrorInternalServerError |-> "INTERNAL_SERVER_ERROR",
      ErrorNotImplemented |-> "NOT_IMPLEMENTED",
      ErrorBadGateway |-> "BAD_GATEWAY",
      ErrorServiceUnavailable |-> "SERVICE_UNAVAILABLE",
      ErrorGatewayTimeout |-> "GATEWAY_TIMEOUT",
      ErrorHttpVersionNotSupported |-> "HTTP_VERSION_NOT_SUPPORTED",
      ErrorVariantAlsoNegotiates |-> "VARIANT_ALSO_NEGOTIATES",
      ErrorInsufficientStorage |-> "INSUFFICIENT_STORAGE",
      ErrorLoopDetected |-> "LOOP_DETECTED",
      ErrorNotExtended |-> "NOT_EXTENDED",
      ErrorNetworkAuthenticationRequired |-> "NETWORK_AUTHENTICATION_REQUIRED" ]
\* No status yet.
NoStatus == 0

IoKinds == {"NotFound", "PermissionDenied", "Other", "ConnectionReset"}

\* An error value: its type, its variant, the io::ErrorKind inside it, for an
\* InternalError its status, the helper that made it and its cause.
Err(type, variant, kind) ==
    [type |-> type, variant |-> variant, kind |-> kind, status |-> "-", by |-> "-",
     cause |-> "-"]

ParseErrors ==
    {Err("ParseError", v, "-") :
        v \in {"Method", "Uri", "Version", "Header", "TooLarge", "Incomplete",
               "Status", "Timeout", "Utf8"}}
    \cup {Err("ParseError", "Io", k) : k \in IoKinds}

PayloadErrors ==
    {Err("PayloadError", v, "-") :
        v \in {"Incomplete", "EncodingCorrupted", "Overflow", "UnknownLength",
               "Http2Payload"}}
    \cup {Err("PayloadError", v, k) : v \in {"Incomplete", "Io"}, k \in IoKinds}

\* Types whose impl ResponseError is empty.
NoOverride ==
    {Err(t, "-", "-") : t \in {"Box<dyn StdError>", "UnitError", "HttpError", "BlockingError"}}

\* Types whose status_code is BAD_REQUEST.
BadRequests ==
    {Err(t, "-", "-") : t \in {"DeError", "Utf8Error", "InvalidHeaderValue"}}
    \cup {Err("ContentTypeError", v, "-") : v \in {"ParseError", "UnknownEncoding"}}

Causes == {"err", "ParseError::Method"}

\* InternalError::new(cause, status)
InternalError(cause, status) ==
    [Err("InternalError", "Status", "-") EXCEPT !.status = status, !.cause = cause]

\* InternalError::from_response(cause, response); status: the response's.
from_response(cause, status) ==
    [Err("InternalError", "Response", "-") EXCEPT !.status = status, !.cause = cause]

\* The helper name applied to cause.
Helper(name, cause) == [InternalError(cause, error_helper[name]) EXCEPT !.by = name]

Errors ==
    ParseErrors \cup PayloadErrors \cup NoOverride \cup BadRequests
    \cup {Err("io::Error", "-", k) : k \in IoKinds}
    \cup {Helper(h, c) : h \in DOMAIN error_helper, c \in Causes}
    \cup {from_response(c, st) : c \in Causes, st \in {"OK", "NOT_FOUND"}}

\* impl ResponseError for io::Error
io_status(kind) ==
    CASE kind = "NotFound"         -> StatusCodes.NOT_FOUND
      [] kind = "PermissionDenied" -> StatusCodes.FORBIDDEN
      [] OTHER                     -> StatusCodes.INTERNAL_SERVER_ERROR

\* A PayloadError status without the Overflow arm.
payload_status_without_overflow(variant) == StatusCodes.BAD_REQUEST

\* impl ResponseError for PayloadError
payload_status(variant) ==
    IF variant = "Overflow" THEN StatusCodes.PAYLOAD_TOO_LARGE
    ELSE StatusCodes.BAD_REQUEST

\* impl ResponseError for InternalError<T>: status_code
internal_status(e) ==
    IF e.variant \in {"Status", "Response"} THEN StatusCodes[e.status]
    ELSE StatusCodes.INTERNAL_SERVER_ERROR

\* ResponseError::status_code
status_code(e) ==
    CASE e.type = "ParseError"    -> StatusCodes.BAD_REQUEST
      [] e.type = "PayloadError"  -> payload_status(e.variant)
      [] e.type = "io::Error"     -> io_status(e.kind)
      [] e.type = "InternalError" -> internal_status(e)
      [] e \in BadRequests        -> StatusCodes.BAD_REQUEST
      [] OTHER                    -> StatusCodes.INTERNAL_SERVER_ERROR

\* ResponseError::error_response: the status of the response, and the error
\* afterwards (an InternalError gives its predefined response away).
error_response(e) ==
    IF e.type = "InternalError" /\ e.variant # "Status"
    THEN [status |-> internal_status(e), err |-> [e EXCEPT !.variant = "Taken"]]
    ELSE [status |-> status_code(e), err |-> e]

InitErrors ==
    /\ Idle
    /\ \E e \in Errors :
          call = [fn |-> "error", orig |-> e, err |-> e, wrapped |-> FALSE,
                  code |-> NoStatus, resps |-> <<>>]

Untouched == ~call.wrapped /\ call.code = NoStatus /\ call.resps = <<>>

\* impl From<io::Error> for ParseError
ParseErrorFrom ==
    /\ Untouched
    /\ call.err.type = "io::Error"
    /\ call' = [call EXCEPT !.err = Err("ParseError", "Io", call.err.kind)]
    /\ UNCHANGED dispatcher

\* impl From<io::Error> for PayloadError
PayloadErrorFrom ==
    /\ Untouched
    /\ call.err.type = "io::Error"
    /\ call' = [call EXCEPT !.err = Err("PayloadError", "Incomplete", call.err.kind)]
    /\ UNCHANGED dispatcher

\* impl<T: ResponseError> From<T> for Error
ErrorFrom ==
    /\ Untouched
    /\ call' = [call EXCEPT !.wrapped = TRUE]
    /\ UNCHANGED dispatcher

\* err.status_code(), err.as_response_error().status_code()
StatusCode ==
    /\ call.code = NoStatus
    /\ call' = [call EXCEPT !.code = status_code(call.err)]
    /\ UNCHANGED dispatcher

\* err.error_response(), err.as_response_error().error_response()
ErrorResponse ==
    /\ Len(call.resps) < MaxResponses
    /\ LET r == error_response(call.err)
       IN  call' = [call EXCEPT !.err = r.err, !.resps = Append(@, r.status)]
    /\ UNCHANGED dispatcher

NextError == ParseErrorFrom \/ PayloadErrorFrom \/ ErrorFrom \/ StatusCode \/ ErrorResponse

SpecError == InitErrors /\ [][NextError]_vars

\* The status each helper constructor is named after.
NamedAfter ==
    [ ErrorBadRequest |-> 400,
      ErrorUnauthorized |-> 401,
      ErrorPaymentRequired |-> 402,
      ErrorForbidden |-> 403,
      ErrorNotFound |-> 404,
      ErrorMethodNotAllowed |-> 405,
      ErrorNotAcceptable |-> 406,
      ErrorProxyAuthenticationRequired |-> 407,
      ErrorRequestTimeout |-> 408,
      ErrorConflict |-> 409,
      ErrorGone |-> 410,
      ErrorLengthRequired |-> 411,
      ErrorPayloadTooLarge |-> 413,
      ErrorUriTooLong |-> 414,
      ErrorUnsupportedMediaType |-> 415,
      ErrorRangeNotSatisfiable |-> 416,
      ErrorImATeapot |-> 418,
      ErrorMisdirectedRequest |-> 421,
      ErrorUnprocessableEntity |-> 422,
      ErrorLocked |-> 423,
      ErrorFailedDependency |-> 424,
      ErrorUpgradeRequired |-> 426,
      ErrorPreconditionFailed |-> 412,
      ErrorPreconditionRequired |-> 428,
      ErrorTooManyRequests |-> 429,
      ErrorRequestHeaderFieldsTooLarge |-> 431,
      ErrorUnavailableForLegalReasons |-> 451,
      ErrorExpectationFailed |-> 417,
      ErrorInternalServerError |-> 500,
      ErrorNotImplemented |-> 501,
      ErrorBadGateway |-> 502,
      ErrorServiceUnavailable |-> 503,
      ErrorGatewayTimeout |-> 504,
      ErrorHttpVersionNotSupported |-> 505,
      ErrorVariantAlsoNegotiates |-> 506,
      ErrorInsufficientStorage |-> 507,
      ErrorLoopDetected |-> 508,
      ErrorNotExtended |-> 510,
      ErrorNetworkAuthenticationRequired |-> 511 ]
\* The status the kind of an error designates.
Designated(e) ==
    CASE e.type = "ParseError"   -> 400
      [] e.type = "PayloadError" -> IF e.variant = "Overflow" THEN 413 ELSE 400
      [] e.type = "io::Error"    ->
             IF e.kind = "NotFound" THEN 404
             ELSE IF e.kind = "PermissionDenied" THEN 403 ELSE 500
      [] e \in NoOverride        -> 500
      [] OTHER                   -> NamedAfter[e.by]

\* C17: the status of an error and of every response made from it is the
\* one its kind designates: 400 for a ParseError, 413 for
\* PayloadError::Overflow and 400 for any other PayloadError, 404, 403 or
\* 500 for an io::Error by its kind, 500 for a type without an override, and
\* for an error made by a helper constructor the status the helper is named
\* after.
C17_DesignatedStatus ==
    (call.err.type \in {"ParseError", "PayloadError", "io::Error"}
        \/ call.err \in NoOverride
        \/ call.err.by # "-")
    => /\ call.code # NoStatus => call.code = Designated(call.err)
       /\ \A i \in DOMAIN call.resps : call.resps[i] = Designated(call.err)

\* C17's case: an overflowing payload, made an Error, answered 413 twice.
C17_Witness ==
    /\ call.err = Err("PayloadError", "Overflow", "-")
    /\ call.wrapped
    /\ call.code = 413
    /\ call.resps = <<413, 413>>

\* ----------------------------------------------------------- recognizer.rs
\* The characters a parameter is made of; a str is a sequence of them.
PathChars == {"/", ".", "*", ":", "<", ">", "\\", "c"}

RECURSIVE StrsUpTo(_)
StrsUpTo(n) ==
    IF n = 0 THEN {<<>>}
    ELSE LET shorter == StrsUpTo(n - 1)
         IN  shorter \cup {Append(s, c) : s \in {t \in shorter : Len(t) = n - 1},
                                          c \in PathChars}

Params == StrsUpTo(MaxParam)

\* val.split('/')
RECURSIVE split(_)
split(val) ==
    IF \A i \in DOMAIN val : val[i] # "/" THEN <<val>>
    ELSE LET at == CHOOSE i \in DOMAIN val :
                       val[i] = "/" /\ \A j \in 1..(i - 1) : val[j] # "/"
         IN  <<SubSeq(val, 1, at - 1)>> \o split(SubSeq(val, at + 1, Len(val)))

starts_with(segment, c) == segment # <<>> /\ segment[1] = c
ends_with(segment, c) == segment # <<>> /\ segment[Len(segment)] = c
contains(segment, c) == \E i \in DOMAIN segment : segment[i] = c

\* std::path on Windows: a path that starts with a drive letter and a colon
\* has a prefix.
has_prefix(windows, path) ==
    windows /\ Len(path) >= 2 /\ path[1] = "c" /\ path[2] = ":"

\* A PathBuf is the sequence of its components.
\* PathBuf::push: a path with a prefix replaces the buffer.
push(windows, buf, path) ==
    IF has_prefix(windows, path)
    THEN <<SubSeq(path, 1, 2)>>
         \o (IF Len(path) > 2 THEN <<SubSeq(path, 3, Len(path))>> ELSE <<>>)
    ELSE Append(buf, path)

\* PathBuf::pop: truncates to the parent; a lone prefix has none.
pop(windows, buf) ==
    IF buf = <<>> \/ (Len(buf) = 1 /\ has_prefix(windows, buf[1])) THEN buf
    ELSE SubSeq(buf, 1, Len(buf) - 1)

Ok(buf) == [ok |-> TRUE, path |-> buf, err |-> "-"]
Error(err) == [ok |-> FALSE, path |-> <<>>, err |-> err]

\* The loop of from_param over the segments left.
RECURSIVE segments_loop(_, _, _)
segments_loop(windows, buf, segs) ==
    IF segs = <<>> THEN Ok(buf)
    ELSE LET segment == Head(segs)
             rest == Tail(segs)
         IN  CASE segment = <<".", ".">> -> segments_loop(windows, pop(windows, buf), rest)
               [] OTHER ->
                  IF starts_with(segment, ".") THEN Error("BadStart('.')")
                  ELSE IF starts_with(segment, "*") THEN Error("BadStart('*')")
                  ELSE IF ends_with(segment, ":") THEN Error("BadEnd(':')")
                  ELSE IF ends_with(segment, ">") THEN Error("BadEnd('>')")
                  ELSE IF ends_with(segment, "<") THEN Error("BadEnd('<')")
                  ELSE IF segment = <<>> THEN segments_loop(windows, buf, rest)
                  ELSE IF windows /\ contains(segment, "\\") THEN Error("BadChar('\\')")
                  ELSE segments_loop(windows, push(windows, buf, segment), rest)

\* <PathBuf as FromParam>::from_param; windows: cfg!(windows)
from_param(windows, val) == segments_loop(windows, <<>>, split(val))

InitParams ==
    /\ Idle
    /\ \E val \in Params, windows \in BOOLEAN :
          call = [fn |-> "from_param", val |-> val, windows |-> windows,
                  result |-> Error("not called")]

\* PathBuf::from_param(val)
FromParam ==
    /\ call.result = Error("not called")
    /\ call' = [call EXCEPT !.result = from_param(call.windows, call.val)]
    /\ UNCHANGED dispatcher

NextPath == FromParam

SpecPath == InitParams /\ [][NextPath]_vars

\* The components left when ".." removes the component accepted before it.
RECURSIVE Accepted(_, _)
Accepted(buf, segs) ==
    IF segs = <<>> THEN buf
    ELSE IF Head(segs) = <<".", ".">>
         THEN Accepted(IF buf = <<>> THEN buf ELSE SubSeq(buf, 1, Len(buf) - 1), Tail(segs))
    ELSE IF Head(segs) = <<>> THEN Accepted(buf, Tail(segs))
    ELSE Accepted(Append(buf, Head(segs)), Tail(segs))

SafeComponent(c) ==
    /\ c # <<".", ".">>
    /\ c # <<>>
    /\ c[1] \notin {".", "*"}
    /\ c[Len(c)] \notin {":", ">", "<"}

\* C19: from_param returns an error or a path safe as a suffix: no
\* component of an Ok result is "..", starts with '.' or '*', ends with ':',
\* '>' or '<', or is empty, and the result is what is left of the segments
\* when each ".." removes the component accepted before it (if any).
C19_SafeSuffix ==
    call.result.ok =>
        /\ \A i \in DOMAIN call.result.path : SafeComponent(call.result.path[i])
        /\ call.result.path = Accepted(<<>>, split(call.val))

\* C19 on a build that is not for Windows.
C19_SafeSuffixElsewhere == ~call.windows => C19_SafeSuffix

\* An Ok result after a ".." removed a component.
C19_SeenOk ==
    /\ call.result.ok
    /\ call.val = <<"c", "/", ".", ".">>
    /\ call.result.path = <<>>

\* ------------------------------------------------ claims on the dispatcher
\* poll_response has just returned Ok to Dispatcher::poll.
ResponseReturned == pc = "flush"

\* C21: whenever poll_response returns without error with the state idle,
\* the queue of pending messages is empty.
C21_QueueDrained ==
    (ResponseReturned /\ is_empty(inner.state)) => inner.messages = <<>>

\* ------------------------------------------------------- send_response
\* The dispatchers send_response is called on: any flags, any payload
\* channel, from the arms of poll_response and handle_request that call it.
Senders ==
    {[with_timeout(cfg, 0) EXCEPT
          !.flags = fl, !.payload = p,
          !.chan = IF p = "None" THEN "none" ELSE "open",
          !.state = st] :
        cfg \in Configs, fl \in SUBSET {"KEEPALIVE", "STARTED"},
        p \in {"None", "Read", "Pause"},
        st \in {StateNone, ServiceCall(1, "ready"), ExpectCall(1, "err")}}

InitSend ==
    /\ inner \in Senders
    /\ wire = <<>>
    /\ wend = "open"
    /\ handlers = "any"
    /\ Start
    /\ \E r \in Responses :
          call = [fn |-> "send_response", d |-> inner, r |-> r, res |-> "not called"]

\* self.state = self.send_response(res, body)?
SendResponseCall ==
    /\ call.res = "not called"
    /\ LET h == send_response(inner, 1, HandlerStatus, call.r)
       IN  /\ inner' = IF h.ok THEN [h.d EXCEPT !.state = h.st] ELSE h.d
           /\ call' = [call EXCEPT !.res = IF h.ok THEN "Ok" ELSE "Io"]
    /\ UNCHANGED <<wire, reads, avail, wend, out, writable, shut, handlers,
                   pc, ret, updated, need_write, entries, notify, result>>

NextSend == SendResponseCall

SpecSend == InitSend /\ [][NextSend]_vars

\* C22: after send_response encoded a head, KEEPALIVE is the codec's
\* keep-alive decision for that response and the state is idle exactly for
\* the hints None and Empty, SendPayload for every other hint, Sized(0)
\* included; when the head cannot be encoded, an active payload channel is
\* ended with Incomplete and the call fails with the I/O dispatch error.
C22_SendResponse ==
    call.res # "not called" =>
        IF call.r.enc
        THEN /\ call.res = "Ok"
             /\ ("KEEPALIVE" \in inner.flags) = call.r.ka
             /\ inner.flags \ {"KEEPALIVE"} = call.d.flags \ {"KEEPALIVE"}
             /\ is_empty(inner.state) = (call.r.hint \in {"None", "Empty"})
             /\ call.r.hint \notin {"None", "Empty"} =>
                   inner.state = SendPayload(1, call.r.n)
             /\ inner.write_buf = <<Unit("status", 1, HandlerStatus),
                                    Unit("headers", 1, HandlerStatus)>>
             /\ inner.payload = call.d.payload
        ELSE /\ call.res = "Io"
             /\ inner.payload = "None"
             /\ call.d.payload # "None" => inner.chan = "Incomplete"
             /\ inner.write_buf = <<>>
             /\ inner.state = call.d.state

\* C22's case: the head of a response with a body of Sized(0) was encoded
\* with the codec deciding against keep-alive.
C22_Witness ==
    /\ call.res = "Ok"
    /\ call.r.hint = "Sized"
    /\ call.r.n = 0
    /\ ~call.r.ka
    /\ "KEEPALIVE" \in call.d.flags
    /\ "KEEPALIVE" \notin inner.flags
    /\ inner.state.kind = "SendPayload"

\* poll_response is about to run a turn of its body loop.
Streaming == pc = "response" /\ inner.state.kind = "SendPayload"

C23_Step ==
    /\ (Streaming /\ BufLen(inner.write_buf) >= HW_BUFFER_SIZE) =>
          /\ inner' = inner
          /\ pc' = "flush"
          /\ need_write'
    /\ (Streaming /\ (inner'.state # inner.state
                        \/ inner'.write_buf # inner.write_buf
                        \/ pc' = "done")) =>
          BufLen(inner.write_buf) < HW_BUFFER_SIZE
    /\ (pc = "flush" /\ need_write /\ pc' = "response") => inner'.write_buf = <<>>

\* C23: while a response body is streamed, the body is polled only when the
\* write buffer holds fewer than HW_BUFFER_SIZE bytes; at or above the mark
\* poll_response returns asking for a write and leaves the body alone, and
\* it is called again in that wake-up only after a flush emptied the buffer.
C23_WriteBackpressure == [][C23_Step]_vars

\* C23's case: the buffer reached the mark, the body was left alone, the
\* flush emptied the buffer and the body is about to be polled again.
C23_Witness ==
    /\ Streaming
    /\ need_write
    /\ inner.write_buf = <<>>
    /\ Has(out, "chunk", 0)

\* a is a prefix of b.
IsPrefix(a, b) == Len(a) <= Len(b) /\ a = SubSeq(b, 1, Len(a))

\* The transport fails in this step.
TransportFails == pc # "done" /\ pc' = "done" /\ result' = "Io"

\* This step calls poll_flush.
Flushes == pc = "flush" \/ (pc = "branch" /\ "SHUTDOWN" \in inner.flags
                               /\ "WRITE_DISCONNECT" \notin inner.flags)

C29_Step ==
    /\ IsPrefix(out, out')
    /\ ~TransportFails =>
          /\ IsPrefix(Encoded, Encoded')
          /\ Flushes => Encoded' = Encoded
          /\ out' # out => Flushes
    /\ (Flushes /\ ~TransportFails) =>
          /\ writable' = (writable /\ inner'.write_buf = <<>>)
          /\ (pc = "flush" /\ need_write) =>
                (pc' = "finish") = (inner.write_buf # <<>> /\ inner'.write_buf # <<>>)
    /\ (Flushes /\ inner.write_buf # <<>> /\ ~writable) =>
          (TransportFails \/ (out' = out /\ inner'.write_buf = inner.write_buf))
    /\ (TransportFails /\ pc = "flush") => inner' = inner

\* C29: partial writes lose and duplicate nothing.  While the transport
\* does not fail, what it accepted followed by the write buffer is exactly
\* what was appended to the write buffer, in order: a flush moves a prefix
\* of the buffer to the transport and leaves the rest, and nothing else
\* changes what the transport accepted.  poll_flush reports true exactly
\* when it stopped on WouldBlock, that is with bytes left in the buffer; a
\* transport that fails ends the connection with the I/O error.
C29_PartialWrites == [][C29_Step]_vars

\* C29's case: the transport took the status line of a response and then
\* returned WouldBlock; the rest of the head waits in the write buffer.
C29_Witness ==
    /\ Parked
    /\ ~writable
    /\ Len(out) = 1
    /\ out[1].u = "status"
    /\ Len(inner.write_buf) = 1
    /\ inner.write_buf[1] = [out[1] EXCEPT !.u = "headers"]

\* The connection did not end in a failure of the transport.
Intact == ~(pc = "done" /\ result = "Io")

\* Every body fragment and every end-of-body marker directly follows the
\* head or a fragment of its own response.
C24_Framed ==
    Intact =>
        \A i \in DOMAIN Encoded :
            Encoded[i].u \in {"chunk", "last"} =>
                /\ i > 1
                /\ Encoded[i - 1].id = Encoded[i].id
                /\ Encoded[i - 1].u \in {"headers", "chunk"}

\* While a body is streamed, the last unit encoded is the head or a fragment
\* of its response.
C24_Open ==
    (Intact /\ inner.state.kind = "SendPayload") =>
        /\ Encoded # <<>>
        /\ Encoded[Len(Encoded)].id = inner.state.id
        /\ Encoded[Len(Encoded)].u \in {"headers", "chunk"}

\* A turn of the body loop appends nothing, one fragment or the marker of
\* the response being streamed, and the streaming of a body ends, unless in
\* an error, with its marker.
C24_Step ==
    /\ Streaming =>
          inner'.write_buf \in
              {inner.write_buf,
               Append(inner.write_buf, Unit("chunk", inner.state.id, 0)),
               Append(inner.write_buf, Unit("last", inner.state.id, 0))}
    /\ (inner.state.kind = "SendPayload" /\ inner'.state.kind # "SendPayload") =>
          inner'.write_buf = Append(inner.write_buf, Unit("last", inner.state.id, 0))

RECURSIVE Total(_)
Total(polls) ==
    IF polls = <<>> THEN 0 ELSE Len(Head(polls).bytes) + Total(Tail(polls))

\* The body was polled to its end.
Ended == \E i \in DOMAIN call.chunks : call.chunks[i] = None

\* C25: a body that reports the hint Sized(n), fixed in-memory bodies and
\* SizedStream alike, has yielded exactly n bytes to the dispatcher when it
\* reaches its end.
C25_SizedExact ==
    (call.hint.hint = "Sized" /\ Ended) => Total(call.chunks) = call.hint.n

\* C25 for the fixed in-memory bodies.
C25_FixedExact == FixedBody => C25_SizedExact

\* The body being streamed has failed and this turn of the body loop polls it.
BodyFailed ==
    /\ Streaming
    /\ inner.state.fut = "err"
    /\ BufLen(inner.write_buf) < HW_BUFFER_SIZE

C26_Step ==
    /\ BodyFailed => (pc' = "done" /\ result' = "Unknown" /\ inner' = inner)
    /\ pc # "done"

\* The future failed on a body error: the body is still the state, no
\* marker was encoded for its response.
C26_Failed ==
    (pc = "done" /\ result = "Unknown") =>
        /\ inner.state.kind = "SendPayload"
        /\ \A i \in DOMAIN Encoded :
              Encoded[i].id = inner.state.id => Encoded[i].u # "last"

\* C26: an error of the response body while it is streamed is fatal: the
\* poll that meets it fails with the dispatch error and changes nothing
\* else, no end-of-body marker is encoded for that response, and nothing
\* happens on the connection afterwards: the body is not polled again and
\* no queued request is handled.
C26_BodyErrorFatal == []C26_Failed /\ [][C26_Step]_vars

\* C26's case: the body failed after a fragment, with a request queued
\* behind it.
C26_Witness ==
    /\ pc = "done"
    /\ result = "Unknown"
    /\ inner.messages # <<>>
    /\ Has(out, "chunk", 0)

\* poll_keepalive is about to find its timer ready outside shutdown.
TimerReady ==
    /\ pc = "keepalive"
    /\ inner.ka_timer \in {"Fired", "Elapsed"}
    /\ "SHUTDOWN" \notin inner.flags

\* A decode has moved the keep-alive deadline past the timer's.
Refreshed == inner.tleft < inner.ka_expire

\* A handler in flight, a body being streamed or bytes to write.
Busy == ~is_empty(inner.state) \/ inner.write_buf # <<>>

C27_OnlyIdle ==
    TimerReady =>
        ("SHUTDOWN" \in inner'.flags => (~Refreshed /\ ~Busy))

C27_StaysOpen ==
    (TimerReady /\ (Busy \/ Refreshed)) =>
        (pc' = "branch" /\ "SHUTDOWN" \notin inner'.flags)

\* As stated: a ready timer that finds the connection busy or the deadline
\* refreshed is always re-armed.
C27_TimerRearmed ==
    [][C27_OnlyIdle /\ C27_StaysOpen
       /\ ((TimerReady /\ (Busy \/ Refreshed)) => inner'.ka_timer = "Armed")]_vars

\* C27: the keep-alive timer closes only idle connections: a timer found
\* ready outside shutdown sets SHUTDOWN only if its deadline is not earlier
\* than the refreshed keep-alive deadline, the state is idle and the write
\* buffer is empty.  With a handler in flight, a body being streamed, bytes
\* to write or a refreshed deadline the connection stays open, and the
\* timer is re-armed if the deadline was refreshed or keep-alive is
\* configured; with keep-alive disabled the timer is left expired.
C27_KeepAliveTimer ==
    [][C27_OnlyIdle /\ C27_StaysOpen
       /\ ((TimerReady /\ (Busy \/ Refreshed)) =>
              (inner'.ka_timer = "Armed"
                   <=> (Refreshed \/ inner.config.keep_alive > 0)))]_vars

\* C27's case: the slow-request timer expired with keep-alive disabled and
\* poll_keepalive found the connection busy.
C27_Witness ==
    /\ pc = "branch"
    /\ inner.ka_timer = "Elapsed"
    /\ inner.config.keep_alive = 0
    /\ "SHUTDOWN" \notin inner.flags
    /\ Busy

\* Dispatcher::poll is about to read the socket.
Reading ==
    /\ pc = "branch"
    /\ ~shutting_down(inner)
    /\ "READ_DISCONNECT" \notin inner.flags

\* The units this read gets before the transport blocks or ends.
Arrived == Min(avail, Len(wire))

\* This read meets the end of the client's stream after them.
StreamEnded == avail > Len(wire)

KeptBytes == inner'.read_buf = inner.read_buf \o SubSeq(wire, 1, Arrived)

PendingDisconnect ==
    /\ pc' = "request"
    /\ inner'.flags = inner.flags \cup {"READ_DISCONNECT"}

ReadFatal == pc' = "done" /\ result' = "Io"

C28_Drains ==
    Reading =>
        /\ avail' = 0
        /\ KeptBytes
        /\ ~StreamEnded => (pc' = "request" /\ inner'.flags = inner.flags)
        /\ (StreamEnded /\ wend = "eof") => PendingDisconnect
        /\ (StreamEnded /\ wend \in {"reset", "err"} /\ Arrived = 0) => ReadFatal

\* As stated: after bytes were read in this turn any error is a pending
\* disconnect.
C28_AnyErrorAfterBytes ==
    [][C28_Drains
       /\ ((Reading /\ StreamEnded /\ wend \in {"reset", "err"} /\ Arrived > 0)
              => PendingDisconnect)]_vars

\* C28: reading drains the transport until it would block and keeps the
\* bytes; end-of-file sets READ_DISCONNECT; an I/O error other than
\* would-block is fatal when no byte was read in this turn; after bytes
\* were read in this turn a connection reset is a pending disconnect
\* (READ_DISCONNECT set, the bytes kept for decoding), and any other error
\* is still fatal.
C28_ReadPhase ==
    [][C28_Drains
       /\ ((Reading /\ StreamEnded /\ wend = "reset" /\ Arrived > 0)
              => PendingDisconnect)
       /\ ((Reading /\ StreamEnded /\ wend = "err" /\ Arrived > 0)
              => ReadFatal)]_vars

\* C28's case: the first read of the connection got bytes and then an
\* error that is not a reset: the future failed with the bytes unread.
C28_Witness ==
    /\ pc = "done"
    /\ result = "Io"
    /\ wend = "gone"
    /\ reads = 1
    /\ inner.read_buf # <<>>
    /\ "STARTED" \notin inner.flags
    /\ out = <<>>
    /\ inner.write_buf = <<>>

\* Dispatcher::poll calls itself.
Reenters == pc = "finish" /\ pc' = "keepalive"

C30_Step ==
    /\ Reenters => "SHUTDOWN" \in inner'.flags
    /\ (pc = "branch" /\ shutting_down(inner)) => pc' \in {"parked", "done"}
    /\ (pc = "keepalive" /\ entries = 1) =>
          (pc' = "done" \/ (pc' = "branch" /\ shutting_down(inner')))

\* The recursion alone: poll calls itself with SHUTDOWN set, the call it
\* makes takes the SHUTDOWN branch or fails in poll_keepalive, and that
\* branch returns: at most one re-entry in a wake-up.
C30_ReentersOnce == [](entries <= 1) /\ [][C30_Step]_vars

\* C30: in a single wake-up Dispatcher::poll re-enters itself at most
\* once, since every re-entry happens with SHUTDOWN set and the SHUTDOWN
\* branch never re-enters, and every call of poll terminates: no call is
\* caught in a loop that cannot end.
C30_PollTerminates == C30_ReentersOnce /\ [](pc # "spin")

\* poll_request runs with the consumer of the payload channel dropped,
\* the read half open and room in the queue.
ConsumerDropped ==
    /\ pc = "request"
    /\ inner.payload = "Dropped"
    /\ "READ_DISCONNECT" \notin inner.flags
    /\ Len(inner.messages) < MAX_PIPELINED_MESSAGES

\* C31: dropping the body consumer early does not stall the connection:
\* with the consumer dropped poll_request still enters its decode loop, so
\* the rest of the body is decoded and discarded and the following
\* pipelined requests are decoded and answered.
C31_DroppedKeepsDecoding == [][ConsumerDropped => pc' = "decode"]_vars

\* A payload channel whose consumer may still wait for bytes.
PayloadActive == inner.payload \in {"Read", "Pause"}

\* Reading stops for good in this step of the read phase (end-of-file) or
\* of the decode loop (I/O failure, parse error).
ReadingStops ==
    /\ pc \in {"branch", "decode"}
    /\ ~shutting_down(inner)
    /\ "READ_DISCONNECT" \notin inner.flags
    /\ "READ_DISCONNECT" \in inner'.flags

\* C32: a truncated request body is surfaced to its consumer: whenever
\* reading stops for good (READ_DISCONNECT set by end-of-file, I/O failure
\* or parse error) while a payload channel is active, the step that stops
\* reading takes the sender and terminates the channel with an error, so
\* the consumer is not left waiting on a channel that is never fed again.
C32_TruncatedBodySurfaced ==
    [][(ReadingStops /\ PayloadActive)
          => (inner'.payload = "None" /\ inner'.chan \notin {"open", "eof"})]_vars

\* C33: in-flight work is never cancelled by a successful close: the
\* future never completes successfully while the state is not idle (an
\* expect or handler future pending, or a response body being streamed).
C33_NoCancelByClose == (pc = "done" /\ result = "ok") => is_empty(inner.state)

\* Without WRITE_DISCONNECT (set with work in flight only by
\* client_disconnected) a successful close finds the state idle.
C33_IdleUnlessDisconnected ==
    (pc = "done" /\ result = "ok" /\ "WRITE_DISCONNECT" \notin inner.flags)
        => is_empty(inner.state)

\* The slow-request deadline expired: poll_keepalive encoded the 408.
SlowRequest == Has(Encoded, "status", 408)

\* C34: a slow-request timeout is a fatal dispatch error: when the
\* slow-request deadline expires before the first request head is
\* complete, the future ends, unless the transport fails first, with
\* DispatchError::SlowRequestTimeout and not successfully.
C34_SlowRequestFatal ==
    (pc = "done" /\ SlowRequest /\ result # "Io") => result = "SlowRequestTimeout"

\* The ends the future has after a slow-request timeout.
C34_EndsSeen ==
    (pc = "done" /\ SlowRequest) => result \in {"ok", "DisconnectTimeout", "Io"}

\* The ids the step passes to expect.call and to service.call.
ExpectCalls == SubSeq(inner'.expect, Len(inner.expect) + 1, Len(inner'.expect))

ServiceCalls == SubSeq(inner'.service, Len(inner.service) + 1, Len(inner'.service))

C35_Step ==
    /\ IsPrefix(inner.expect, inner'.expect)
    /\ IsPrefix(inner.service, inner'.service)
    /\ Len(ExpectCalls) <= 1
    /\ Len(ServiceCalls) <= 1
    /\ ExpectCalls # <<>> => inner.state.kind = "None"
    /\ ServiceCalls # <<>> =>
          \/ inner.state.kind = "None"
          \/ /\ inner.state.kind = "ExpectCall"
             /\ ServiceCalls = <<inner.state.id>>
             /\ ExpectCalls = <<>>
    /\ (ExpectCalls # <<>> /\ ServiceCalls # <<>>) => ExpectCalls = ServiceCalls

\* C35: at most one unit of work is in flight: the expect handler and the
\* main handler are called only when the state is idle, or, for the main
\* handler, from the completed expect call of the same request; so no
\* handler is called while another handler future is pending or a response
\* body is being streamed.
C35_OneInFlight == [][C35_Step]_vars

\* C35's case: a second handler was called on a connection whose first
\* request went through the expect handler, and its future is pending.
C35_Witness ==
    /\ Len(inner.service) = 2
    /\ inner.expect # <<>>
    /\ inner.state = ServiceCall(inner.service[2], "pending")

\* C36: a decoded head is handed to the handler directly only when the
\* queue is empty: whenever poll_request runs with the state idle, the
\* pending-message queue holds no entry.
C36_DirectOnlyIfQueueEmpty ==
    (pc \in {"request", "decode"} /\ inner.state.kind = "None")
        => inner.messages = <<>>

\* C37: no queued entry is silently discarded: SHUTDOWN is never set, and
\* the future never completes successfully, while the pending-message
\* queue holds a request or error entry that has not been answered.
C37_NoEntryDiscarded ==
    ("SHUTDOWN" \in inner.flags \/ (pc = "done" /\ result = "ok"))
        => inner.messages = <<>>

\* SHUTDOWN is set in this step.
SetsShutdown == "SHUTDOWN" \notin inner.flags /\ "SHUTDOWN" \in inner'.flags

\* C38: SHUTDOWN implies that the state is idle: every step that sets
\* SHUTDOWN (keep-alive expiry, slow-request expiry, read-disconnect while
\* idle, keep-alive not allowed while idle) is taken with no expect
\* future, handler future or streamed body in flight, and the state stays
\* idle afterwards.
C38_ShutdownIdle ==
    /\ []("SHUTDOWN" \in inner.flags => inner.state.kind = "None")
    /\ [][SetsShutdown => (inner.state.kind = "None" /\ pc \in {"keepalive", "finish"})]_vars

\* C38's case: SHUTDOWN was set by the keep-alive expiry of an idle
\* connection that had answered a request and may be kept alive.
C38_Witness ==
    /\ pc = "branch"
    /\ "SHUTDOWN" \in inner.flags
    /\ "KEEPALIVE" \in inner.flags
    /\ "READ_DISCONNECT" \notin inner.flags
    /\ inner.service # <<>>
    /\ Has(out, "headers", HandlerStatus)

\* The flags of the connection's lifecycle.
Lifecycle == {"STARTED", "SHUTDOWN", "READ_DISCONNECT", "WRITE_DISCONNECT"}

\* The step encodes a response head.
EncodesHead ==
    Len(StatusIds(inner'.write_buf)) > Len(StatusIds(inner.write_buf))

C39_Step ==
    /\ (inner.flags \cap Lifecycle) \subseteq inner'.flags
    /\ (("KEEPALIVE" \in inner.flags) # ("KEEPALIVE" \in inner'.flags)) => EncodesHead
    /\ inner'.flags \subseteq (Lifecycle \cup {"KEEPALIVE"})

\* C39: the lifecycle flags are monotonic: once STARTED, SHUTDOWN,
\* READ_DISCONNECT or WRITE_DISCONNECT is set it is never cleared; only
\* KEEPALIVE changes in both directions, and only in a step that encodes a
\* response head.
C39_FlagsMonotonic == [][C39_Step]_vars

\* C39's case: a connection that started with KEEPALIVE lost it to a
\* response, with lifecycle flags set before and kept.
C39_Witness ==
    /\ inner.config.keep_alive > 0
    /\ "KEEPALIVE" \notin inner.flags
    /\ {"STARTED", "READ_DISCONNECT"} \subseteq inner.flags
    /\ Has(inner.write_buf, "status", HandlerStatus)
    /\ pc = "response"

\* ------------------------------------------------ a codec that keeps order
\* The messages f of a codec that emits body chunks and end-of-body markers
\* only after a head that declares a body and before the next head, each
\* body ended at most once.
WellFormed(f) ==
    \A i \in DOMAIN f :
        f[i].t \in {"Chunk", "Eof"} =>
            \E j \in 1..(i - 1) :
                /\ f[j].t = "Head"
                /\ f[j].body
                /\ \A k \in (j + 1)..(i - 1) : f[k].t = "Chunk"

InitCodec == Init /\ WellFormed(wire)

SpecCodec == InitCodec /\ [][Next]_vars

\* C40: with a codec that emits body chunks and end-of-body markers only
\* after a head that declares a body and before the next head, a chunk or
\* marker is never decoded without a payload channel, no 500 entry is
\* enqueued and InternalError is never recorded or returned, whatever the
\* handlers, the timers and the transport do.
C40_NoProtocolViolation ==
    /\ ~Violation
    /\ Fabricated(inner.messages) = 0
    /\ inner.error # "InternalError"
    /\ result # "InternalError"
    /\ ~Has(Encoded, "status", 500)

\* C40's case: the end-of-body marker is about to be decoded, with its
\* channel, after the handler has answered the request and the state went
\* idle.
C40_Witness ==
    /\ Decoding("Eof")
    /\ inner.payload # "None"
    /\ inner.service # <<>>
    /\ inner.state.kind = "None"
    /\ Has(Encoded, "headers", HandlerStatus)

====
